---- MODULE Spec2Model ----
(***************************************************************************)
(* A model of squidalytics' record layer (squidalytics/schemas/base.py):   *)
(* JSONDataClass hydration, annotations, indexing, the id index, and the   *)
(* list-top-level collection, over the record types of the test fixtures.  *)
(***************************************************************************)
EXTENDS Integers, Sequences, FiniteSets, TLC

VARIABLES
    hier,      \* a chain of subclasses of JSONDataClass, root ancestor first:
               \* the annotations each class of the chain declares itself
    obj,       \* the object under test (a record, a collection, or NoneV)
    op,        \* the last operation performed
    arg,       \* the argument of the last operation
    ret,       \* the value the last operation returned (NoneV if it raised)
    exc,       \* the exception the last operation raised ("" if none)
    cause,     \* the __cause__ of that exception ("" if none)
    walks,     \* how many times __index_ids has walked obj's tree
    JUDGE_MAP  \* the class attribute SquidalyticsAccessor.JUDGE_MAP

vars == <<hier, obj, op, arg, ret, exc, cause, walks, JUDGE_MAP>>

----------------------------------------------------------------------------
(* Bounds *)

MaxList == 2       \* longest list in a raw input
MaxCalls == 3      \* most search_by_id calls on one object
MaxPath == 3       \* longest tuple of keys given to __getitem__
MaxDepthAnn == 3   \* classes in an inheritance chain (get_annotations)
MaxPrimaryOnly == 2   \* how many of the primary-only abilities are used
MaxAbilities == 3     \* how many of the other abilities are used
MaxSlots == 3         \* most secondary slots of an equipment item
MaxPoints == 5        \* most ability points given to bin_abilities
MaxBinSize == 3       \* widest bin given to bin_abilities

----------------------------------------------------------------------------
(* Python values.  Every value has the same four fields so that any two    *)
(* values can be compared: k is the runtime type, name the class name of a *)
(* record, v the number of an int, items the                               *)
(* ordered entries of a dict / record __dict__ / list (key is <<>> in a    *)
(* list).  Keys are sequences of characters.                               *)

V(k, n, v, it) == [k |-> k, name |-> n, v |-> v, items |-> it]
E(key, val) == [key |-> key, val |-> val]

NoneV == V("none", "", 0, <<>>)
IntV(n) == V("int", "", n, <<>>)
\* a str: one entry per character, the character being the entry's key
StrV(chars) == V("str", "", 0, [i \in 1..Len(chars) |-> [key |-> <<chars[i]>>, val |-> V("none", "", 0, <<>>)]])
Chars(x) == [i \in 1..Len(x.items) |-> x.items[i].key[1]]
ListOfEntries(es) == V("list", "", 0, es)
DictV(es) == V("dict", "", 0, es)
RecV(cls, es) == V("rec", cls, 0, es)
\* a reference to a record of the tree of obj: the path from the root
RefV(path) == V("ref", "", 0, path)

ListV(vals) == ListOfEntries([i \in 1..Len(vals) |-> E(<<>>, vals[i])])
Vals(x) == [i \in 1..Len(x.items) |-> x.items[i].val]
Keys(x) == [i \in 1..Len(x.items) |-> x.items[i].key]

SeqRange(s) == {s[i] : i \in 1..Len(s)}
HasKey(x, key) == \E i \in 1..Len(x.items) : x.items[i].key = key
Get(x, key) == x.items[CHOOSE i \in 1..Len(x.items) : x.items[i].key = key].val

\* dict[key] = val: an existing key keeps its position, a new key goes last
SetItem(es, key, val) ==
    IF \E i \in 1..Len(es) : es[i].key = key
    THEN [i \in 1..Len(es) |-> IF es[i].key = key THEN E(key, val) ELSE es[i]]
    ELSE Append(es, E(key, val))

\* K(x), with x evaluated once however often K uses it
Bind(x, K(_)) == CHOOSE y \in {K(v) : v \in {x}} : TRUE

\* the outcome of a call: a returned value or a raised exception
Ok(val) == [exc |-> "", cause |-> "", val |-> val]
Raise(e, c) == [exc |-> e, cause |-> c, val |-> NoneV]

Digits == <<"0", "1", "2", "3", "4", "5", "6", "7", "8", "9">>

\* field names of the fixtures
kA == <<"a">>
kB == <<"b">>
kC == <<"c">>
kD == <<"d">>
kEe == <<"e">>
kG == <<"_", "g">>
kGG == <<"_", "_", "g">>
kH == <<"h">>
kI == <<"i">>
kJ == <<"j">>
kId == <<"i", "d">>
kBlank == <<"b", "l", "a", "n", "k">>
kData == <<"d", "a", "t", "a">>
kNext == <<"n", "e", "x", "t">>
\* field names of gearPowerSchema and imageSchema
kName == <<"n", "a", "m", "e">>
kImage == <<"i", "m", "a", "g", "e">>
kUrl == <<"u", "r", "l">>
\* self.__id_index inside class JSONDataClass is name-mangled
kMangled == <<"_", "J", "S", "O", "N", "D", "a", "t", "a", "C", "l", "a", "s", "s",
              "_", "_", "i", "d", "_", "i", "n", "d", "e", "x">>
\* the unmangled string "__id_index" that getattr() is given
kIdIndex == <<"_", "_", "i", "d", "_", "i", "n", "d", "e", "x">>

----------------------------------------------------------------------------
(* Declared types and the class table *)

T(t, a) == [t |-> t, arg |-> a]
TInt == T("int", "")
TStr == T("str", "")
TNone == T("None", "")
TList == T("list", "")            \* a bare `list`
TRec(c) == T("rec", c)            \* a record class
TListOf(c) == T("listof", c)      \* list[c]
TType(c) == T("Type", c)          \* Type[c]

\* one annotated class attribute; hasdef/def give the dataclass default
F(key, type) == [name |-> key, type |-> type, hasdef |-> FALSE, def |-> NoneV]
FD(key, type, d) == [name |-> key, type |-> type, hasdef |-> TRUE, def |-> d]

Class(parent, own, isdc, next) ==
    [parent |-> parent, own |-> own, dataclass |-> isdc, next |-> next]

Level3Fields ==
    << F(kC, TInt), F(kD, TNone), F(kEe, TStr), F(kG, TNone), F(kH, TList),
       FD(kI, TList, NoneV) >>

Schema ==
    [ n \in { "JSONDataClass", "JSONDataClassListTopLevel", "Level3", "Level2",
              "Level1", "Level0", "Level0DataClass", "Level3WithID",
              "Level2WithID", "Level1WithID", "Level0WithID",
              "imageSchema", "gearPowerSchema", "Level3Holder" } |->
        CASE n = "JSONDataClass" -> Class("object", <<>>, FALSE, "")
          [] n = "JSONDataClassListTopLevel" ->
                Class("JSONDataClass", <<F(kNext, TType("JSONDataClass"))>>,
                      FALSE, "JSONDataClass")
          [] n = "Level3" -> Class("JSONDataClass", Level3Fields, TRUE, "")
          [] n = "Level2" ->
                Class("JSONDataClass", <<F(kB, TListOf("Level3"))>>, TRUE, "")
          \* a client's record class with a field that is a Level3
          [] n = "Level3Holder" ->
                Class("JSONDataClass", <<F(kA, TRec("Level3"))>>, TRUE, "")
          [] n = "Level1" ->
                Class("JSONDataClass",
                      <<F(kA, TRec("Level2")), FD(kJ, TInt, IntV(1))>>, TRUE, "")
          [] n = "Level0" ->
                Class("JSONDataClassListTopLevel", <<>>, FALSE, "Level1")
          [] n = "Level0DataClass" ->
                Class("JSONDataClassListTopLevel",
                      <<F(kData, TListOf("Level1"))>>, TRUE, "")
          [] n = "Level3WithID" ->
                Class("JSONDataClass",
                      Level3Fields \o <<FD(kId, TInt, NoneV)>>, TRUE, "")
          [] n = "Level2WithID" ->
                Class("JSONDataClass",
                      <<F(kB, TListOf("Level3WithID")), FD(kId, TInt, NoneV)>>,
                      TRUE, "")
          [] n = "Level1WithID" ->
                Class("JSONDataClass",
                      <<F(kA, TRec("Level2WithID")), FD(kJ, TInt, IntV(1)),
                        FD(kId, TInt, NoneV)>>, TRUE, "")
          [] n = "imageSchema" ->
                Class("JSONDataClass", <<F(kUrl, TStr)>>, TRUE, "")
          [] n = "gearPowerSchema" ->
                Class("JSONDataClass",
                      <<F(kName, TStr), F(kImage, TRec("imageSchema"))>>, TRUE, "")
          [] n = "Level0WithID" ->
                Class("JSONDataClassListTopLevel", <<>>, FALSE, "Level1WithID") ]

\* the classes of the chain hier are named C1 (the root ancestor), C2, ...
ChainName(i) == "C" \o Digits[i + 1]
ChainNames == {ChainName(i) : i \in 1..Len(hier)}

\* the class table: the fixtures' classes and the classes of the chain
classes ==
    [ n \in DOMAIN Schema \cup ChainNames |->
        IF n \in DOMAIN Schema THEN Schema[n]
        ELSE LET i == CHOOSE i \in 1..Len(hier) : ChainName(i) = n
             IN  Class(IF i = 1 THEN "JSONDataClass" ELSE ChainName(i - 1),
                       hier[i], TRUE, "") ]

IsClass(c) == c \in DOMAIN Schema \cup ChainNames

\* cls.mro() under single inheritance, ending with object
RECURSIVE Mro(_)
Mro(c) == IF IsClass(c) THEN <<c>> \o Mro(classes[c].parent) ELSE <<c>>

\* issubclass(c, d)
IsSubclass(c, d) == d \in SeqRange(Mro(c))

\* dict.update(**anns) applied to an ordered dict of (name, type) entries
RECURSIVE UpdateAnn(_, _)
UpdateAnn(acc, fs) ==
    IF fs = <<>> THEN acc
    ELSE UpdateAnn(SetItem(acc, Head(fs).name, Head(fs).type), Tail(fs))

\* The loop of get_annotations over the classes of an mro: every class
\* updates the dict in turn; object has no __annotations__ and is skipped.
RECURSIVE AnnLoop(_, _)
AnnLoop(acc, mro) ==
    IF mro = <<>> THEN acc
    ELSE AnnLoop(IF IsClass(Head(mro))
                 THEN UpdateAnn(acc, classes[Head(mro)].own)
                 ELSE acc,
                 Tail(mro))

get_annotations(c) == AnnLoop(<<>>, Mro(c))

HasAnn(c, key) == \E i \in 1..Len(get_annotations(c)) : get_annotations(c)[i].key = key
AnnOf(c, key) ==
    LET anns == get_annotations(c)
    IN  anns[CHOOSE i \in 1..Len(anns) : anns[i].key = key].val

----------------------------------------------------------------------------
(* Construction and hydration *)

\* str.replace("__", "_"): every non-overlapping "__", left to right
RECURSIVE ReplaceDU(_)
ReplaceDU(s) ==
    IF Len(s) < 2 THEN s
    ELSE IF s[1] = "_" /\ s[2] = "_"
         THEN <<"_">> \o ReplaceDU(SubSeq(s, 3, Len(s)))
         ELSE <<s[1]>> \o ReplaceDU(Tail(s))

\* the entries of a mapping with their keys as they come
NormaliseNothing(acc, es) == acc \o es

\* {k.replace("__", "_"): v for k, v in value.items()}
RECURSIVE NormaliseKeys(_, _)
NormaliseKeys(acc, es) ==
    IF es = <<>> THEN acc
    ELSE NormaliseKeys(SetItem(acc, ReplaceDU(Head(es).key), Head(es).val), Tail(es))

\* the fields of a dataclass: those of its dataclass bases first, then its
\* own; a redeclared field keeps the position of the inherited one
RECURSIVE AddFields(_, _)
AddFields(acc, fs) ==
    IF fs = <<>> THEN acc
    ELSE LET f == Head(fs)
             pos == {i \in 1..Len(acc) : acc[i].name = f.name}
         IN  AddFields(IF pos = {} THEN Append(acc, f)
                       ELSE [i \in 1..Len(acc) |-> IF i \in pos THEN f ELSE acc[i]],
                       Tail(fs))

RECURSIVE Fields(_)
Fields(c) ==
    IF ~IsClass(c) THEN <<>>
    ELSE IF classes[c].dataclass THEN AddFields(Fields(classes[c].parent), classes[c].own)
    ELSE Fields(classes[c].parent)

\* the class attribute next_level_type, looked up along the mro
RECURSIVE NextLevelType(_)
NextLevelType(c) ==
    IF ~IsClass(c) THEN "JSONDataClass"
    ELSE IF classes[c].next # "" THEN classes[c].next
    ELSE NextLevelType(classes[c].parent)

IsCollection(c) == IsSubclass(c, "JSONDataClassListTopLevel")
IsDataclass(c) == IsClass(c) /\ \E d \in SeqRange(Mro(c)) : IsClass(d) /\ classes[d].dataclass

\* isinstance(x, c) for a record class c
IsInstance(x, c) == x.k = "rec" /\ IsSubclass(x.name, c)

\* The dataclass-generated __init__ binding keyword arguments to fields: an
\* unexpected keyword or a missing required field is a TypeError; __dict__
\* holds the fields in declaration order.
InitDict(c, kwargs) ==
    LET fs == Fields(c)
        names == {fs[i].name : i \in 1..Len(fs)}
        given == {kwargs[i].key : i \in 1..Len(kwargs)}
    IN  IF \/ given \ names # {}
           \/ \E i \in 1..Len(fs) : ~fs[i].hasdef /\ fs[i].name \notin given
        THEN Raise("TypeError", "")
        ELSE Ok(RecV(c, [i \in 1..Len(fs) |->
                           E(fs[i].name,
                             IF fs[i].name \in given
                             THEN Get(DictV(kwargs), fs[i].name)
                             ELSE fs[i].def)]))

\* Wrap, had it wrapped every exception anew
WrapAlways(r) == IF r.exc = "" THEN r ELSE Raise("SecondaryException", r.exc)

\* except Exception as e: a SecondaryException passes, anything else is
\* wrapped (raise SecondaryException from e)
Wrap(r) ==
    IF r.exc = "" \/ r.exc = "SecondaryException" THEN r
    ELSE Raise("SecondaryException", r.exc)

\* whether a declared type has __args__, and its first argument
HasArgs(type) == type.t \in {"listof", "Type"}

RECURSIVE New(_, _), Call(_, _), PostInit(_, _, _), HydrateList(_, _, _), CollInit(_, _), CollData(_, _, _)
RECURSIVE HydrateReversed(_, _, _)

\* annotation(**kwargs), for whatever the annotation of a field is
Call(type, kwargs) ==
    CASE type.t = "rec" -> New(type.arg, kwargs)
      [] type.t = "int" -> IF kwargs = <<>> THEN Ok(IntV(0)) ELSE Raise("TypeError", "")
      [] type.t = "str" -> IF kwargs = <<>> THEN Ok(StrV(<<>>)) ELSE Raise("TypeError", "")
      [] type.t \in {"list", "listof"} ->
            IF kwargs = <<>> THEN Ok(ListV(<<>>)) ELSE Raise("TypeError", "")
      [] OTHER -> Raise("TypeError", "")   \* None and Type[...] are not callable

\* cls(**kwargs)
New(c, kwargs) ==
    IF ~IsClass(c) THEN Raise("TypeError", "")
    ELSE IF IsCollection(c) THEN
        IF Len(kwargs) = 1 /\ kwargs[1].key = <<"j", "s", "o", "n">>
        THEN CollInit(c, kwargs[1].val)
        ELSE Raise("TypeError", "")
    ELSE IF ~IsDataclass(c) THEN
        \* JSONDataClass itself: object.__init__ takes no arguments
        IF kwargs = <<>> THEN Ok(RecV(c, <<>>)) ELSE Raise("TypeError", "")
    ELSE Bind(InitDict(c, kwargs),
              LAMBDA d : IF d.exc # "" THEN d ELSE PostInit(c, d.val.items, 1))

\* HydrateList, had it put the records in the reverse order of the mappings
HydrateReversed(c, items, i) ==
    IF i > Len(items) THEN Ok(ListV(<<>>))
    ELSE IF items[i].val.k # "dict" THEN Raise("AttributeError", "")
    ELSE Bind(New(c, NormaliseKeys(<<>>, items[i].val.items)),
              LAMBDA r :
                IF r.exc # "" THEN r
                ELSE Bind(HydrateReversed(c, items, i + 1),
                          LAMBDA rest :
                            IF rest.exc # "" THEN rest
                            ELSE Ok(ListOfEntries(rest.val.items \o <<E(<<>>, r.val)>>))))

\* HydrateList, had it hydrated the first mapping only
HydrateFirstOnly(c, items, i) ==
    IF i > Len(items) THEN Ok(ListV(<<>>))
    ELSE IF items[i].val.k # "dict" THEN Raise("AttributeError", "")
    ELSE Bind(New(c, NormaliseKeys(<<>>, items[i].val.items)),
              LAMBDA r :
                IF r.exc # "" THEN r
                ELSE Ok(ListOfEntries(<<E(<<>>, r.val)>> \o SubSeq(items, i + 1, Len(items)))))

\* [cls(**{k.replace("__", "_"): v ...}) for item in value], from item i on
HydrateList(c, items, i) ==
    IF i > Len(items) THEN Ok(ListV(<<>>))
    ELSE IF items[i].val.k # "dict" THEN Raise("AttributeError", "")  \* item.items()
    ELSE Bind(New(c, NormaliseKeys(<<>>, items[i].val.items)),
              LAMBDA r :
                IF r.exc # "" THEN r
                ELSE Bind(HydrateList(c, items, i + 1),
                          LAMBDA rest :
                            IF rest.exc # "" THEN rest
                            ELSE Ok(ListOfEntries(<<E(<<>>, r.val)>> \o rest.val.items))))

\* JSONDataClass.__post_init__: the loop over self.__dict__ from entry i on;
\* es is self.__dict__ as the loop has left it so far
PostInit(c, es, i) ==
    IF i > Len(es) THEN Ok(RecV(c, es))
    ELSE
      LET key == es[i].key
          value == es[i].val
          set(x) == [es EXCEPT ![i] = E(key, x)]
      IN
        IF value.k = "dict" THEN
            IF ~HasAnn(c, key) THEN Raise("SecondaryException", "KeyError")
            ELSE Bind(Wrap(Call(AnnOf(c, key), NormaliseKeys(<<>>, value.items))),
                      LAMBDA r : IF r.exc # "" THEN r ELSE PostInit(c, set(r.val), i + 1))
        ELSE IF value.k = "list" /\ Len(value.items) > 0 /\ value.items[1].val.k = "dict" THEN
            IF ~HasAnn(c, key) THEN Raise("SecondaryException", "KeyError")
            ELSE IF ~HasArgs(AnnOf(c, key)) THEN PostInit(c, set(ListV(<<>>)), i + 1)
            ELSE Bind(Wrap(HydrateList(AnnOf(c, key).arg, value.items, 1)),
                      LAMBDA r : IF r.exc # "" THEN r ELSE PostInit(c, set(r.val), i + 1))
        ELSE PostInit(c, es, i + 1)

\* [self.next_level_type(**result) for result in json], from item i on
CollData(c, items, i) ==
    IF i > Len(items) THEN Ok(ListV(<<>>))
    ELSE Bind(New(c, items[i].val.items),
              LAMBDA r :
                IF r.exc # "" THEN r
                ELSE Bind(CollData(c, items, i + 1),
                          LAMBDA rest :
                            IF rest.exc # "" THEN rest
                            ELSE Ok(ListOfEntries(<<E(<<>>, r.val)>> \o rest.val.items))))

\* CollInit, had it taken any sequence that is not all mappings as it came
CollInitUnchecked(c, json) ==
    IF IsDataclass(c) THEN Raise("TypeError", "")
    ELSE IF Len(json.items) > 0 /\ \A i \in 1..Len(json.items) : json.items[i].val.k = "dict"
    THEN Bind(CollData(NextLevelType(c), json.items, 1),
              LAMBDA r : IF r.exc # "" THEN r ELSE Ok(RecV(c, <<E(kData, r.val)>>)))
    ELSE Ok(RecV(c, <<E(kData, json)>>))

\* JSONDataClassListTopLevel.__new__ and __init__: cls(json)
CollInit(c, json) ==
    IF IsDataclass(c) THEN Raise("TypeError", "")
    ELSE IF Len(json.items) > 0 /\ \A i \in 1..Len(json.items) : json.items[i].val.k = "dict"
    THEN Bind(CollData(NextLevelType(c), json.items, 1),
              LAMBDA r : IF r.exc # "" THEN r ELSE Ok(RecV(c, <<E(kData, r.val)>>)))
    ELSE IF ~ \A i \in 1..Len(json.items) : IsInstance(json.items[i].val, NextLevelType(c))
    THEN Raise("TypeError", "")
    ELSE Ok(RecV(c, <<E(kData, json)>>))

----------------------------------------------------------------------------
(* Indexing *)

\* the keys __getitem__ is given
KName(chars) == [kk |-> "str", name |-> chars, i |-> 0, j |-> 0, all |-> FALSE, path |-> <<>>]
KInt(i) == [kk |-> "int", name |-> <<>>, i |-> i, j |-> 0, all |-> FALSE, path |-> <<>>]
\* slice(i, j) with 0 <= i, j; KSliceAll is slice(None, None)
KSlice(i, j) == [kk |-> "slice", name |-> <<>>, i |-> i, j |-> j, all |-> FALSE, path |-> <<>>]
KSliceAll == [kk |-> "slice", name |-> <<>>, i |-> 0, j |-> 0, all |-> TRUE, path |-> <<>>]
KTuple(path) == [kk |-> "tuple", name |-> <<>>, i |-> 0, j |-> 0, all |-> FALSE, path |-> path]

Min(a, b) == IF a < b THEN a ELSE b

\* JSONDataClass.top_level_keys: list(self.__dict__.keys())
top_level_keys(x) == Keys(x)

\* getattr(x, name) for a name that is no method or class attribute
GetAttr(x, name) ==
    IF HasKey(x, name) THEN Ok(Get(x, name)) ELSE Raise("AttributeError", "")

\* list.__getitem__
ListGetItem(x, key) ==
    LET n == Len(x.items)
    IN  CASE key.kk = "int" ->
                IF key.i >= 0 /\ key.i < n THEN Ok(x.items[key.i + 1].val)
                ELSE IF key.i < 0 /\ key.i >= -n THEN Ok(x.items[n + key.i + 1].val)
                ELSE Raise("IndexError", "")
          [] key.kk = "slice" ->
                IF key.all THEN Ok(x)
                ELSE Ok(ListOfEntries(SubSeq(x.items, Min(key.i, n) + 1, Min(key.j, n))))
          [] OTHER -> Raise("TypeError", "")

\* str.__getitem__: a character or a substring
StrGetItem(x, key) ==
    LET n == Len(x.items)
        pos == IF key.i >= 0 THEN key.i + 1 ELSE n + key.i + 1
    IN  CASE key.kk = "int" ->
                IF pos \in 1..n THEN Ok(V("str", "", 0, <<x.items[pos]>>))
                ELSE Raise("IndexError", "")
          [] key.kk = "slice" ->
                IF key.all THEN Ok(x)
                ELSE Ok(V("str", "", 0, SubSeq(x.items, Min(key.i, n) + 1, Min(key.j, n))))
          [] OTHER -> Raise("TypeError", "")

\* dict.__getitem__ (a slice is unhashable)
DictGetItem(x, key) ==
    CASE key.kk = "str" -> IF HasKey(x, key.name) THEN Ok(Get(x, key.name)) ELSE Raise("KeyError", "")
      [] key.kk = "slice" -> Raise("TypeError", "")
      [] OTHER -> Raise("KeyError", "")

RECURSIVE Index(_, _), RecGetItem(_, _), CollGetItem(_, _), TupleLoop(_, _)

\* for k in key: curent_level = curent_level[k]
TupleLoop(cur, path) ==
    IF path = <<>> THEN Ok(cur)
    ELSE Bind(Index(cur, Head(path)),
              LAMBDA r : IF r.exc # "" THEN r ELSE TupleLoop(r.val, Tail(path)))

\* RecGetItem, had it not counted the top level keys
RecGetItemFirstKey(x, key) ==
    CASE key.kk = "str" -> GetAttr(x, key.name)
      [] key.kk \in {"int", "slice"} ->
            IF Len(top_level_keys(x)) = 0 THEN Raise("IndexError", "")
            ELSE Index(Get(x, top_level_keys(x)[1]), key)
      [] OTHER -> TupleLoop(x, key.path)

\* JSONDataClass.__getitem__
RecGetItem(x, key) ==
    CASE key.kk = "str" -> GetAttr(x, key.name)
      [] key.kk \in {"int", "slice"} ->
            LET tlk == top_level_keys(x)
            IN  IF Len(tlk) > 1 THEN Raise("IndexError", "")
                ELSE IF Len(tlk) = 0 THEN Raise("IndexError", "")   \* top_level_keys[0]
                ELSE Index(Get(x, tlk[1]), key)
      [] OTHER -> TupleLoop(x, key.path)

\* CollGetItem, had it dropped the keys after the first of a tuple
CollGetItemFirstOnly(x, key) ==
    CASE key.kk = "tuple" ->
            IF key.path = <<>> THEN Raise("IndexError", "")
            ELSE IF Head(key.path).kk = "str" THEN Raise("TypeError", "")
            ELSE Index(Get(x, kData), Head(key.path))
      [] key.kk = "slice" ->
            Bind(Index(Get(x, kData), key),
                 LAMBDA r : IF r.exc # "" THEN r ELSE CollInit("JSONDataClassListTopLevel", r.val))
      [] key.kk = "str" -> Raise("TypeError", "")
      [] OTHER -> Index(Get(x, kData), key)

\* JSONDataClassListTopLevel.__getitem__
CollGetItem(x, key) ==
    CASE key.kk = "tuple" ->
            IF key.path = <<>> THEN Raise("IndexError", "")        \* key[0]
            ELSE IF Head(key.path).kk = "str" THEN Raise("TypeError", "")
            ELSE Bind(Index(Get(x, kData), Head(key.path)),
                      LAMBDA r : IF r.exc # "" THEN r ELSE Index(r.val, KTuple(Tail(key.path))))
      [] key.kk = "slice" ->
            Bind(Index(Get(x, kData), key),
                 LAMBDA r : IF r.exc # "" THEN r ELSE CollInit("JSONDataClassListTopLevel", r.val))
      [] key.kk = "str" -> Raise("TypeError", "")
      [] OTHER -> Index(Get(x, kData), key)

\* value[key] for any value
Index(x, key) ==
    CASE x.k = "rec" -> IF IsCollection(x.name) THEN CollGetItem(x, key) ELSE RecGetItem(x, key)
      [] x.k = "list" -> ListGetItem(x, key)
      [] x.k = "str" -> StrGetItem(x, key)
      [] x.k = "dict" -> DictGetItem(x, key)
      [] OTHER -> Raise("TypeError", "")     \* int and None are not subscriptable

----------------------------------------------------------------------------
(* The id index, traversal and printing *)

\* str(n) for an int n
RECURSIVE IntToStr(_)
IntToStr(n) ==
    IF n < 0 THEN <<"-">> \o IntToStr(-n)
    ELSE IF n < 10 THEN <<Digits[n + 1]>>
    ELSE IntToStr(n \div 10) \o <<Digits[(n % 10) + 1]>>

\* str(x) for the values an id can be
Str(x) ==
    CASE x.k = "int" -> IntToStr(x.v)
      [] x.k = "str" -> Chars(x)
      [] x.k = "none" -> <<"N", "o", "n", "e">>
      [] OTHER -> <<"?">>

\* a path step: an attribute name, or a position in a list
StepName(chars) == E(chars, NoneV)
StepPos(i) == E(<<>>, IntV(i))

\* id_index.update(**other)
RECURSIVE DictUpdate(_, _)
DictUpdate(acc, es) ==
    IF es = <<>> THEN acc
    ELSE DictUpdate(SetItem(acc, Head(es).key, Head(es).val), Tail(es))

RECURSIVE IndexIds(_, _), IndexIdsLoop(_, _, _, _), IndexIdsList(_, _, _, _)

\* for item in value: if isinstance(item, JSONDataClass): update
IndexIdsList(items, path, j, acc) ==
    IF j > Len(items) THEN acc
    ELSE IndexIdsList(items, path, j + 1,
            IF items[j].val.k = "rec"
            THEN DictUpdate(acc, IndexIds(items[j].val, Append(path, StepPos(j - 1))))
            ELSE acc)

\* the loop of __index_ids over self.__dict__, from entry i on
IndexIdsLoop(x, path, i, acc) ==
    IF i > Len(x.items) THEN acc
    ELSE LET key == x.items[i].key
             value == x.items[i].val
         IN  IndexIdsLoop(x, path, i + 1,
                CASE value.k = "rec" ->
                        DictUpdate(acc, IndexIds(value, Append(path, StepName(key))))
                  [] value.k = "list" ->
                        IndexIdsList(value.items, Append(path, StepName(key)), 1, acc)
                  [] value.k \notin {"rec", "list"} /\ key = kId ->
                        SetItem(acc, Str(value), RefV(path))
                  [] OTHER -> acc)

\* JSONDataClass.__index_ids: str(id) -> the record that has it, the record
\* being named by its path from the root
IndexIds(x, path) == IndexIdsLoop(x, path, 1, <<>>)

\* getattr(self, "__id_index", None): the attribute of that very name
CachedIndex(x) == IF HasKey(x, kIdIndex) THEN Get(x, kIdIndex) ELSE NoneV

\* JSONDataClass.search_by_id: self afterwards, the outcome, and whether
\* __index_ids ran.  The assignment self.__id_index = ... inside the class
\* body sets the name-mangled attribute, and the return reads it.
search_by_id(x, id) ==
    LET walk == CachedIndex(x).k = "none"
    IN  Bind(IF walk
             THEN RecV(x.name, SetItem(x.items, kMangled, DictV(IndexIds(x, <<>>))))
             ELSE x,
             LAMBDA self :
               [ self |-> self,
                 walked |-> walk,
                 out |-> LET index == GetAttr(self, kMangled)
                         IN  IF index.exc # "" THEN index
                             ELSE IF HasKey(index.val, Str(id))
                                  THEN Ok(Get(index.val, Str(id)))
                                  ELSE Raise("KeyError", "") ])

RECURSIVE traverse_tree(_, _), TraverseLoop(_, _, _), TraverseList(_, _, _)

TraverseList(items, path, j) ==
    IF j > Len(items) THEN <<>>
    ELSE (IF items[j].val.k = "rec"
          THEN traverse_tree(items[j].val, Append(path, StepPos(j - 1)))
          ELSE <<>>) \o TraverseList(items, path, j + 1)

TraverseLoop(x, path, i) ==
    IF i > Len(x.items) THEN <<>>
    ELSE LET key == x.items[i].key
             value == x.items[i].val
         IN  (CASE value.k = "rec" -> traverse_tree(value, Append(path, StepName(key)))
                [] value.k = "list" -> TraverseList(value.items, Append(path, StepName(key)), 1)
                [] OTHER -> <<RefV(path)>>) \o TraverseLoop(x, path, i + 1)

\* JSONDataClass.traverse_tree: the records func is applied to, in order
traverse_tree(x, path) == TraverseLoop(x, path, 1)

\* type(value).__name__
TypeName(x) ==
    CASE x.k = "rec" -> x.name
      [] x.k = "none" -> "NoneType"
      [] OTHER -> x.k

\* one line of the printed tree: level spaces, then a header, "key:",
\* "key: list[]", "key: list[T]", "key: T", or the repr of a list item
Line(tabs, kind, key, name, val) ==
    [tabs |-> tabs, kind |-> kind, key |-> key, name |-> name, val |-> val]

RECURSIVE Repr(_, _), ReprLoop(_, _, _)

ReprLoop(x, level, i) ==
    IF i > Len(x.items) THEN <<>>
    ELSE LET key == x.items[i].key
             value == x.items[i].val
             idx == IF Len(value.items) > 1 THEN 2 ELSE 1
         IN  (CASE value.k = "rec" ->
                      <<Line(level, "rec", key, "", NoneV)>> \o Repr(value, level + 1)
                [] value.k = "list" /\ Len(value.items) = 0 ->
                      <<Line(level, "emptylist", key, "", NoneV)>>
                [] value.k = "list" /\ Len(value.items) > 0 ->
                      <<Line(level, "list", key, TypeName(value.items[idx].val), NoneV)>>
                      \o (IF value.items[idx].val.k = "rec"
                          THEN Repr(value.items[idx].val, level + 1)
                          ELSE <<Line(level + 2, "item", <<>>, "", value.items[idx].val)>>)
                [] OTHER -> <<Line(level, "leaf", key, TypeName(value), NoneV)>>)
             \o ReprLoop(x, level, i + 1)

\* JSONDataClass.__repr__: the lines of the printed tree
Repr(x, level) ==
    (IF level = 1 THEN <<Line(0, "header", <<>>, x.name, NoneV)>> ELSE <<>>)
    \o ReprLoop(x, level, 1)

----------------------------------------------------------------------------
(* Inputs: raw JSON in the shape of tests/input_files/test_json*.json, and  *)
(* the ways it can drift from the schema.                                   *)

\* all sequences over S of length at most n
RECURSIVE SeqsUpTo(_, _)
SeqsUpTo(S, n) ==
    IF n = 0 THEN {<<>>}
    ELSE LET shorter == SeqsUpTo(S, n - 1)
         IN  shorter \cup {Append(q, e) : q \in {r \in shorter : Len(r) = n - 1}, e \in S}

Raw3Plain ==
    << E(kC, IntV(3)), E(kD, NoneV), E(kEe, StrV(<<"f">>)), E(kGG, NoneV),
       E(kH, ListV(<<>>)) >>

\* a Level3 mapping: as in the fixture, with an id, with its required fields
\* missing, with a list of mappings under the untyped list field h, with
\* mappings under the scalar fields c and e, with the i of the fixture, or
\* with a number under __g
Raw3s ==
    { DictV(Raw3Plain),
      DictV(Raw3Plain \o <<E(kId, IntV(0))>>),
      DictV(Raw3Plain \o <<E(kId, IntV(2))>>),
      DictV(<<E(kC, IntV(3))>>),
      DictV(SetItem(Raw3Plain, kH, ListV(<<DictV(<<>>)>>))),
      DictV(SetItem(SetItem(Raw3Plain, kC, DictV(<<>>)), kEe, DictV(<<E(kC, IntV(3))>>))),
      DictV(Raw3Plain \o <<E(kI, ListV(<<ListV(<<>>), ListV(<<>>)>>))>>),
      DictV(SetItem(Raw3Plain, kGG, IntV(7))) }

\* what the list under b can be: mappings and nulls in any order
BLists == {ListV(q) : q \in SeqsUpTo(Raw3s \cup {NoneV}, MaxList)}

\* a Level2 mapping
Raw2s ==
    { DictV(<<E(kB, b)>> \o x) :
        b \in BLists \cup {NoneV},
        x \in {<<>>, <<E(kId, IntV(1))>>, <<E(kBlank, NoneV)>>} }
    \cup {DictV(<<>>)}

\* a Level1 mapping
Raw1s ==
    { DictV(<<E(kA, a)>> \o x) :
        a \in Raw2s \cup {NoneV},
        x \in {<<>>, <<E(kJ, IntV(5))>>, <<E(kId, IntV(0))>>, <<E(kBlank, NoneV)>>} }
    \cup {DictV(<<E(kJ, IntV(5))>>)}

\* the record classes that are constructed directly
RootClasses == {"Level1", "Level1WithID", "Level2", "Level3", "JSONDataClass", "Level3Holder"}
CollClasses == {"Level0", "Level0WithID", "Level0DataClass", "JSONDataClassListTopLevel"}

----------------------------------------------------------------------------
(* The state machine *)

\* the numbers of a judgement are kept in halves (1 is 2 halves); nan is
\* the missing value
NaN == V("nan", "", 0, <<>>)
JudgeMapLiteral ==
    <<E("WIN", IntV(2)), E("LOSE", IntV(0)), E("DRAW", IntV(1)),
      E("EXEMPTED_LOSE", IntV(1))>>

Init ==
    /\ hier = <<>>
    /\ obj = NoneV
    /\ op = "init"
    /\ arg = NoneV
    /\ ret = NoneV
    /\ exc = ""
    /\ cause = ""
    /\ walks = 0
    /\ JUDGE_MAP = JudgeMapLiteral

\* cls(**raw): a record is constructed from a raw mapping
Construct(c, raw) ==
    /\ op = "init"
    /\ \E r \in {New(c, raw.items)} :
           /\ obj' = r.val
           /\ exc' = r.exc
           /\ cause' = r.cause
    /\ op' = "construct"
    /\ arg' = [cls |-> c, raw |-> raw]
    /\ ret' = NoneV
    /\ UNCHANGED <<hier, walks, JUDGE_MAP>>

\* cls(json): a collection is constructed from a sequence
ConstructList(c, json) ==
    /\ op = "init"
    /\ \E r \in {CollInit(c, json)} :
           /\ obj' = r.val
           /\ exc' = r.exc
           /\ cause' = r.cause
    /\ op' = "construct_list"
    /\ arg' = [cls |-> c, raw |-> json]
    /\ ret' = NoneV
    /\ UNCHANGED <<hier, walks, JUDGE_MAP>>

ReadOps == {"getitem", "top_level_keys", "traverse_tree", "to_dict", "get_annotations"}

\* An operation that only reads obj: its outcome becomes ret / exc.  A read
\* leaves obj as it is, so the reads are taken from the states that the
\* construction and search_by_id produce.
Reads(name, a, out) ==
    /\ obj.k = "rec"
    /\ op \notin ReadOps
    /\ op' = name
    /\ arg' = a
    /\ \E r \in {out} :
           /\ ret' = r.val
           /\ exc' = r.exc
           /\ cause' = r.cause
    /\ UNCHANGED <<hier, obj, walks, JUDGE_MAP>>

\* obj[key]
GetItem(key) == Reads("getitem", key, Index(obj, key))

\* obj.top_level_keys()
TopLevelKeys ==
    Reads("top_level_keys", NoneV, Ok(ListV([i \in 1..Len(obj.items) |-> StrV(top_level_keys(obj)[i])])))

\* obj.traverse_tree(func): ret is the list of the records func was given
TraverseTree == Reads("traverse_tree", NoneV, Ok(ListV(traverse_tree(obj, <<>>))))

\* the record's own entries of to_dict: a name with a leading underscore is
\* written with the reserved double underscore, records and the records of
\* a list are converted in turn
RECURSIVE to_dict(_), ToDictEntries(_, _), ToDictEntriesFirstItem(_, _)

\* ToDictEntries, had it written a list as its first element alone
ToDictEntriesFirstItem(es, i) ==
    IF i > Len(es) THEN <<>>
    ELSE LET key == es[i].key
             value == es[i].val
             out == IF Len(key) > 0 /\ key[1] = "_" THEN <<"_">> \o key ELSE key
         IN  <<E(out,
                 CASE value.k = "rec" -> to_dict(value)
                   [] value.k = "list" /\ Len(value.items) > 0 ->
                         ListV(<<IF value.items[1].val.k = "rec"
                                 THEN to_dict(value.items[1].val)
                                 ELSE value.items[1].val>>)
                   [] OTHER -> value)>>
             \o ToDictEntriesFirstItem(es, i + 1)

ToDictEntries(es, i) ==
    IF i > Len(es) THEN <<>>
    ELSE LET key == es[i].key
             value == es[i].val
             out == IF Len(key) > 0 /\ key[1] = "_" THEN <<"_">> \o key ELSE key
         IN  <<E(out,
                 CASE value.k = "rec" -> to_dict(value)
                   [] value.k = "list" ->
                         ListOfEntries([j \in 1..Len(value.items) |->
                             E(<<>>, IF value.items[j].val.k = "rec"
                                     THEN to_dict(value.items[j].val)
                                     ELSE value.items[j].val)])
                   [] OTHER -> value)>>
             \o ToDictEntries(es, i + 1)

\* to_dict(): nested mappings for a record, a list of them for a collection
to_dict(x) ==
    IF IsCollection(x.name)
    THEN ListOfEntries([j \in 1..Len(Get(x, kData).items) |->
                          E(<<>>, to_dict(Get(x, kData).items[j].val))])
    ELSE DictV(ToDictEntries(x.items, 1))

\* obj.to_dict(), of an object just constructed; arg keeps the constructor's
ToDictCall ==
    /\ op \in {"construct", "construct_list"}
    /\ exc = ""
    /\ Reads("to_dict", arg, Ok(to_dict(obj)))

\* cls.get_annotations() for a class c of the chain
GetAnnotationsCall(c) ==
    /\ op = "init"
    /\ op' = "get_annotations"
    /\ arg' = c
    /\ ret' = get_annotations(c)
    /\ UNCHANGED <<hier, obj, exc, cause, walks, JUDGE_MAP>>

\* obj.search_by_id(id)
SearchById(id) ==
    /\ obj.k = "rec"
    /\ walks < MaxCalls
    /\ \E r \in {search_by_id(obj, id)} :
           /\ obj' = r.self
           /\ ret' = r.out.val
           /\ exc' = r.out.exc
           /\ cause' = r.out.cause
           /\ walks' = IF r.walked THEN walks + 1 ELSE walks
    /\ op' = "search_by_id"
    /\ arg' = id
    /\ UNCHANGED <<hier, JUDGE_MAP>>

RawFor(c) ==
    CASE c \in {"Level1", "Level1WithID"} -> Raw1s
      [] c \in {"Level2", "Level2WithID"} -> Raw2s
      [] c \in {"Level3", "Level3WithID"} ->
            Raw3s \cup {DictV(SetItem(SubSeq(Raw3Plain, 1, 3), kG, NoneV) \o <<E(kH, h)>>) :
                         h \in {ListV(<<>>), ListV(<<DictV(<<>>)>>), ListV(<<NoneV>>)}}
      [] c = "Level3Holder" ->
            { DictV(<<E(kA, a)>>) :
                a \in Raw3s \cup {DictV(Raw3Plain \o <<E(kG, IntV(8))>>),
                                  DictV(<<E(kG, IntV(8))>> \o Raw3Plain)} }
      [] OTHER -> {DictV(<<>>), DictV(<<E(kA, NoneV)>>)}

\* the fixture mapping with ids (test_json_with_id.json) and one without
RawId3(n) == DictV(Raw3Plain \o <<E(kId, IntV(n))>>)
RawWithId ==
    DictV(<<E(kA, DictV(<<E(kB, ListV(<<RawId3(2), DictV(Raw3Plain)>>)), E(kId, IntV(1))>>)),
            E(kId, IntV(0))>>)
RawNoId ==
    DictV(<<E(kA, DictV(<<E(kB, ListV(<<DictV(Raw3Plain), DictV(Raw3Plain)>>))>>))>>)
RawNoIdShort == DictV(<<E(kA, DictV(<<E(kB, ListV(<<>>))>>)), E(kJ, IntV(5))>>)

\* what a sequence given to a collection can hold: mappings (well-formed,
\* and failing at the top or below), records of two classes, and null
CollElems ==
    { RawWithId, RawNoId, RawNoIdShort,
      DictV(<<E(kA, DictV(<<>>))>>),
      DictV(<<E(kBlank, NoneV)>>),
      New("Level1WithID", RawWithId.items).val,
      New("Level1", RawNoId.items).val,
      NoneV }

JsonLists == {ListV(q) : q \in SeqsUpTo(CollElems, MaxList)}

\* Hydration: records and collections are constructed from raw input
Next ==
    \/ op = "init" /\ \E c \in RootClasses : \E raw \in RawFor(c) : Construct(c, raw)
    \/ op = "init" /\ \E c \in CollClasses : \E json \in JsonLists : ConstructList(c, json)
    \/ ToDictCall

Spec == Init /\ [][Next]_vars

----------------------------------------------------------------------------
(* get_annotations over chains of classes that redeclare fields *)

AnnTypes == {TRec("Level2"), TRec("Level3")}

\* what one class can declare: each of a and b, with one of the types, or not
OwnAnns ==
    { (IF ta = TNone THEN <<>> ELSE <<F(kA, ta)>>) \o (IF tb = TNone THEN <<>> ELSE <<F(kB, tb)>>) :
        ta \in AnnTypes \cup {TNone}, tb \in AnnTypes \cup {TNone} }

Chains == SeqsUpTo(OwnAnns, MaxDepthAnn) \ {<<>>}

InitAnn ==
    /\ hier \in Chains
    /\ obj = NoneV
    /\ op = "init"
    /\ arg = NoneV
    /\ ret = NoneV
    /\ exc = ""
    /\ cause = ""
    /\ walks = 0
    /\ JUDGE_MAP = JudgeMapLiteral

NextAnn == \E c \in ChainNames : GetAnnotationsCall(c)

SpecAnn == InitAnn /\ [][NextAnn]_vars

----------------------------------------------------------------------------
(* Indexing and the id index, over the fixtures' trees *)

\* a gear power as the battle JSON gives it: a name and an image
RawGearPower ==
    DictV(<<E(kName, StrV(<<"x">>)), E(kImage, DictV(<<E(kUrl, StrV(<<"u">>))>>))>>)

IndexRoots ==
    { <<"Level1WithID", RawWithId>>, <<"Level1", RawNoId>>,
      <<"Level2WithID", Get(RawWithId, kA)>>, <<"Level2", Get(RawNoId, kA)>>,
      <<"Level2", DictV(<<E(kB, ListV(<<NoneV, DictV(Raw3Plain)>>))>>)>>,
      <<"Level2", DictV(<<E(kB, NoneV)>>)>>,
      <<"Level2", DictV(<<E(kB, ListV(<<>>))>>)>>,
      <<"gearPowerSchema", RawGearPower>>,
      <<"JSONDataClass", DictV(<<>>)>> }

IndexColls ==
    { <<"Level0WithID", ListV(<<RawWithId, RawWithId>>)>>,
      <<"Level0WithID", ListV(<<RawWithId>>)>>,
      <<"Level0", ListV(<<RawNoId, RawNoIdShort>>)>>,
      <<"Level0", ListV(<<>>)>>,
      <<"JSONDataClassListTopLevel", ListV(<<New("Level1", RawNoId.items).val>>)>> }

Steps == {KInt(0), KInt(1), KSliceAll, KName(kA), KName(kB), KName(kC)}

KeysU ==
    Steps \cup {KInt(-1), KSlice(0, 1), KSlice(1, 2), KName(kJ), KName(kBlank)}
    \cup {KTuple(q) : q \in SeqsUpTo(Steps, MaxPath)}

SearchIds == {IntV(0), IntV(1), IntV(2), IntV(7), StrV(<<"0">>)}

NextIndex ==
    \/ op = "init" /\ \E r \in IndexRoots : Construct(r[1], r[2])
    \/ op = "init" /\ \E r \in IndexColls : ConstructList(r[1], r[2])
    \/ \E key \in KeysU : GetItem(key)
    \/ \E id \in SearchIds : SearchById(id)
    \/ TopLevelKeys
    \/ TraverseTree

SpecIndex == Init /\ [][NextIndex]_vars

----------------------------------------------------------------------------
(* Properties *)

FieldNames(c) == {Fields(c)[i].name : i \in 1..Len(Fields(c))}
RequiredNames(c) == {Fields(c)[i].name : i \in {j \in 1..Len(Fields(c)) : ~Fields(c)[j].hasdef}}
RawKeys(d) == {d.items[i].key : i \in 1..Len(d.items)}

\* the mapping names exactly fields of c, all the required ones among them
FitsTop(c, d) == RawKeys(d) \subseteq FieldNames(c) /\ RequiredNames(c) \subseteq RawKeys(d)
\* the same for a nested mapping, whose names are normalised first
FitsNested(c, d) ==
    LET names == {ReplaceDU(k) : k \in RawKeys(d)}
    IN  names \subseteq FieldNames(c) /\ RequiredNames(c) \subseteq names

OriginalErrors == {"TypeError", "AttributeError", "KeyError"}

\* the nested mapping under a, and the list under its b, of a raw Level1
RawA(d) == Get(d, kA)
RawB(d) == Get(RawA(d), kB)
ElemClass(c) == AnnOf(AnnOf(c, kA).arg, kB).arg

RECURSIVE TypeMatches(_, _), RecordTypesMatch(_)
TypeMatches(x, type) ==
    CASE type.t = "int" -> x.k = "int"
      [] type.t = "str" -> x.k = "str"
      [] type.t = "None" -> x.k = "none"
      [] type.t = "list" -> x.k = "list"
      [] type.t = "rec" -> IsInstance(x, type.arg) /\ RecordTypesMatch(x)
      [] type.t = "listof" ->
            /\ x.k = "list"
            /\ \A i \in 1..Len(x.items) :
                  IsInstance(x.items[i].val, type.arg) /\ RecordTypesMatch(x.items[i].val)
      [] OTHER -> FALSE
RecordTypesMatch(x) ==
    \A i \in 1..Len(x.items) :
        HasAnn(x.name, x.items[i].key) /\ TypeMatches(x.items[i].val, AnnOf(x.name, x.items[i].key))

\* C2 as claimed: after a successful hydration every attribute of every
\* record of the tree has the runtime type its field declares.
C2_TypesMatch == op = "construct" /\ exc = "" => RecordTypesMatch(obj)

\* no field declared a record holds a raw mapping, a list under a field
\* declared a list of records holds a raw mapping only if its first element
\* is none, and the records it holds are of the declared class
RECURSIVE NoMappingLeft(_)
NoMappingLeft(x) ==
    \A i \in 1..Len(x.items) :
        LET value == x.items[i].val
            type == AnnOf(x.name, x.items[i].key)
        IN  /\ type.t = "rec" => value.k # "dict"
            /\ type.t = "rec" /\ value.k = "rec" =>
                  IsInstance(value, type.arg) /\ NoMappingLeft(value)
            /\ type.t = "listof" /\ value.k = "list" /\ Len(value.items) > 0 =>
                  /\ value.items[1].val.k # "dict"
                  /\ value.items[1].val.k = "rec" =>
                        \A j \in 1..Len(value.items) :
                            /\ IsInstance(value.items[j].val, type.arg)
                            /\ NoMappingLeft(value.items[j].val)

\* C2 as amended: after a successful hydration no field declared a record
\* holds a raw mapping, and a field declared a list of records holds raw
\* mappings only in a list whose first element is no mapping; what was
\* hydrated is of the declared class.  Values that are no mappings are kept
\* as they came, whatever the field declares.
C2_NoMappingLeft == op = "construct" /\ exc = "" => NoMappingLeft(obj)

\* C2 witness: a list of two mappings was hydrated into two records
C2_Witness ==
    /\ op = "construct" /\ exc = "" /\ arg.cls = "Level1WithID"
    /\ Get(obj, kA).k = "rec" /\ Get(Get(obj, kA), kB).k = "list"
    /\ Len(Get(Get(obj, kA), kB).items) = 2
    /\ \A i \in 1..2 : RawB(arg.raw).items[i].val.k = "dict"
    /\ \A i \in 1..2 : IsInstance(Get(Get(obj, kA), kB).items[i].val, "Level3WithID")

\* cls(**d), or cls(d) for a collection
Rehydrate(c, d) == IF IsCollection(c) THEN CollInit(c, d) ELSE New(c, d.items)

NoReservedField(c) == \A k \in FieldNames(c) : k[1] # "_"

\* what is constructed directly from the mappings of to_dict, the root
\* record or the elements of the root collection, is of a class that
\* declares no reserved field, and an element is of the very class the
\* collection declares
PlainAtRoot(x) ==
    IF IsCollection(x.name)
    THEN \A i \in 1..Len(Get(x, kData).items) :
            /\ Get(x, kData).items[i].val.name = NextLevelType(x.name)
            /\ NoReservedField(NextLevelType(x.name))
    ELSE NoReservedField(x.name)

AllMappings(json) == \A i \in 1..Len(json.items) : json.items[i].val.k = "dict"
AllOfType(json, c) == \A i \in 1..Len(json.items) : IsInstance(json.items[i].val, c)

\* C5: a collection is constructed from a sequence only if every element is
\* a mapping or every element is a record of the declared element type; the
\* mappings are then each hydrated into that type, the records are kept; a
\* mixed sequence raises TypeError; so every element of a collection is of
\* its declared element type.
C5_ElementsOfOneType ==
    op = "construct_list" =>
        LET json == arg.raw
            next == NextLevelType(arg.cls)
        IN  /\ exc = "" =>
                  /\ AllMappings(json) \/ AllOfType(json, next)
                  /\ AllOfType(Get(obj, kData), next)
                  /\ Len(Get(obj, kData).items) = Len(json.items)
            /\ ~AllMappings(json) /\ ~AllOfType(json, next) => exc = "TypeError" /\ obj = NoneV
            /\ exc = "" /\ AllMappings(json) =>
                  \A i \in 1..Len(json.items) :
                      Ok(Get(obj, kData).items[i].val) = New(next, json.items[i].val.items)
            /\ AllOfType(json, next) /\ ~IsDataclass(arg.cls) =>
                  exc = "" /\ Get(obj, kData) = json

\* C5 witness: two mappings became two records of the element type
C5_Witness ==
    /\ op = "construct_list" /\ exc = "" /\ arg.cls = "Level0WithID"
    /\ Len(arg.raw.items) = 2 /\ AllMappings(arg.raw)
    /\ AllOfType(Get(obj, kData), "Level1WithID")

\* the classes of an mro that declare the name themselves, in mro order
Declares(c, key) == IsClass(c) /\ \E i \in 1..Len(classes[c].own) : classes[c].own[i].name = key
OwnType(c, key) ==
    classes[c].own[CHOOSE i \in 1..Len(classes[c].own) : classes[c].own[i].name = key].type
NearestDeclaring(mro, key) == mro[CHOOSE i \in 1..Len(mro) :
                                    /\ Declares(mro[i], key)
                                    /\ \A j \in 1..(i - 1) : ~Declares(mro[j], key)]

\* C3 as claimed: get_annotations gives the fields declared by the class and
\* by all its ancestors, and a field that a subtype and an ancestor both
\* declare has the type the subtype declares, that is the type given by the
\* declaring class nearest to the class itself.
C3_SubtypeWins ==
    op = "get_annotations" =>
        /\ {ret[i].key : i \in 1..Len(ret)}
              = {k \in {kA, kB} : \E i \in 1..Len(Mro(arg)) : Declares(Mro(arg)[i], k)}
        /\ \A i \in 1..Len(ret) :
              ret[i].val = OwnType(NearestDeclaring(Mro(arg), ret[i].key), ret[i].key)

\* C6 as claimed: a slice of a collection is a collection with the declared
\* element type of the sliced one, holding the selected elements in order.
C6_SliceKeepsType ==
    op = "getitem" /\ arg.kk = "slice" /\ IsCollection(obj.name) /\ exc = "" =>
        /\ ret.k = "rec" /\ IsCollection(ret.name)
        /\ NextLevelType(ret.name) = NextLevelType(obj.name)
        /\ Ok(Get(ret, kData)) = ListGetItem(Get(obj, kData), arg)

\* obj[k1][k2]...[kn]
RECURSIVE OneAtATime(_, _)
OneAtATime(x, path) ==
    IF path = <<>> THEN Ok(x)
    ELSE Bind(Index(x, Head(path)),
              LAMBDA r : IF r.exc # "" THEN r ELSE OneAtATime(r.val, Tail(path)))

\* C7 as claimed: indexing with the tuple (k1, ..., kn) returns what
\* obj[k1][k2]...[kn] returns, for every path that is valid in the tree.
C7_TupleIsChain ==
    /\ op = "getitem" /\ arg.kk = "tuple" /\ arg.path # <<>>
    /\ OneAtATime(obj, arg.path).exc = ""
    => exc = "" /\ Ok(ret) = OneAtATime(obj, arg.path)

\* a collection indexed by a tuple that starts with a slice
SliceFirst(x, key) == IsCollection(x.name) /\ key.path # <<>> /\ Head(key.path).kk = "slice"

\* C7 as amended: indexing with the tuple (k1, ..., kn) returns what
\* obj[k1][k2]...[kn] returns, for every path that is valid in the tree,
\* unless a collection is indexed by a tuple whose first key is a slice:
\* that raises TypeError, the slice of the data being a bare list.
C7_TupleIsChainButSliceFirst ==
    op = "getitem" /\ arg.kk = "tuple" /\ arg.path # <<>> =>
        /\ OneAtATime(obj, arg.path).exc = "" /\ ~SliceFirst(obj, arg) =>
              exc = "" /\ Ok(ret) = OneAtATime(obj, arg.path)
        /\ SliceFirst(obj, arg) => exc = "TypeError"

\* C7 witness: coll[0, "a", "b"] gave the list that coll[0]["a"]["b"] gives
C7_Witness ==
    /\ op = "getitem" /\ arg = KTuple(<<KInt(0), KName(kA), KName(kB)>>)
    /\ obj.name = "Level0WithID" /\ exc = ""
    /\ ret.k = "list" /\ Len(ret.items) > 0
    /\ Ok(ret) = OneAtATime(obj, arg.path)

\* C8: indexing a record with an integer or a slice succeeds only if the
\* record has exactly one top-level field, and then does what indexing the
\* value of that field with the key does; with more than one top-level field
\* it raises IndexError; the record is as it was.
C8_SoleFieldIndexing ==
    [][op' = "getitem" /\ arg'.kk \in {"int", "slice"} /\ ~IsCollection(obj.name) =>
         /\ obj' = obj
         /\ exc' = "" => Len(top_level_keys(obj)) = 1
         /\ Len(top_level_keys(obj)) > 1 => exc' = "IndexError"
         /\ Len(top_level_keys(obj)) = 1 =>
               [exc |-> exc', cause |-> cause', val |-> ret']
                  = Index(Get(obj, top_level_keys(obj)[1]), arg')]_vars

\* C8 witness: a Level2 record, whose only field is b, gave its first b
C8_Witness ==
    /\ op = "getitem" /\ arg = KInt(0) /\ obj.name = "Level2" /\ exc = ""
    /\ top_level_keys(obj) = <<kB>>
    /\ ret.k = "rec" /\ ret = Get(obj, kB).items[1].val

\* C9 as claimed: a lookup leaves top_level_keys(), the printed tree, the
\* indexing by an integer or a slice and traverse_tree as they were, and a
\* lookup that succeeds twice for one id gives the same record.
C9_LookupChangesNothingElse ==
    [][op' = "search_by_id" =>
         /\ top_level_keys(obj') = top_level_keys(obj)
         /\ Repr(obj', 1) = Repr(obj, 1)
         /\ traverse_tree(obj', <<>>) = traverse_tree(obj, <<>>)
         /\ \A key \in {KInt(0), KSliceAll} : Index(obj', key) = Index(obj, key)
         /\ op = "search_by_id" /\ arg' = arg /\ exc = "" => ret' = ret]_vars

\* C10 as claimed: the first lookup walks the tree and every later lookup
\* uses the index it built, so that the walk has run exactly once after any
\* number of lookups.
C10_WalkOnce == op = "search_by_id" => walks = 1

\* whether path p is a proper prefix of path q
ProperPrefix(p, q) == Len(p) < Len(q) /\ SubSeq(q, 1, Len(p)) = p

\* the records of the tree below x, each named by its path from path
RECURSIVE RecordsBelow(_, _)
RecordsBelow(x, path) ==
    UNION { LET value == x.items[i].val
                here == Append(path, StepName(x.items[i].key))
            IN  CASE value.k = "rec" -> {here} \cup RecordsBelow(value, here)
                  [] value.k = "list" ->
                        UNION { IF value.items[j].val.k = "rec"
                                THEN {Append(here, StepPos(j - 1))}
                                     \cup RecordsBelow(value.items[j].val, Append(here, StepPos(j - 1)))
                                ELSE {} : j \in 1..Len(value.items) }
                  [] OTHER -> {} : i \in 1..Len(x.items) }

\* C11 as claimed: traverse_tree applies the function in post-order: a
\* record is given to the function only after every record below it, in its
\* record-valued and list-of-record-valued fields, has been given to it.
C11_PostOrder ==
    op = "traverse_tree" /\ exc = "" =>
        \A i \in 1..Len(ret.items) :
            \A q \in RecordsBelow(obj, <<>>) :
                /\ ProperPrefix(ret.items[i].val.items, q)
                /\ \E j \in 1..Len(ret.items) : ret.items[j].val.items = q
                => \E j \in 1..(i - 1) : ret.items[j].val.items = q

----------------------------------------------------------------------------
(* Gear abilities (squidalytics/schemas/battle.py, squidalytics/constants.py) *)

\* the first MaxPrimaryOnly names of constants.PRIMARY_ONLY
PRIMARY_ONLY ==
    SubSeq(<< "Comeback", "Last-Ditch Effort", "Opening Gambit", "Tenacity",
              "Ability Doubler", "Haunt", "Ninja Squid", "Respawn Punisher",
              "Thermal Ink", "Drop Roller", "Object Shredder", "Stealth Jump" >>,
           1, MaxPrimaryOnly)

\* the first MaxAbilities names of constants.ABILITIES
ABILITIES ==
    SubSeq(<< "Ink Saver (Main)", "Ink Saver (Sub)", "Ink Recovery Up",
              "Run Speed Up", "Swim Speed Up", "Special Charge Up",
              "Special Saver", "Special Power Up", "Quick Respawn",
              "Quick Super Jump", "Sub Power Up", "Ink Resistance Up",
              "Sub Resistance Up", "Intensify Action" >>,
           1, MaxAbilities)

ALL_ABILITIES == PRIMARY_ONLY \o ABILITIES

\* str.lower() of a gear power name, as far as the comparison with
\* "unknown" can tell: the spellings of that word, and any other name
Lower(name) ==
    CASE name \in {"Unknown", "UNKNOWN", "unknown"} -> "unknown"
      [] name = "Mystery" -> "mystery"
      [] OTHER -> name

\* a dict of ability points: ordered entries (name, points)
Zeroes(names) == [i \in 1..Len(names) |-> E(names[i], 0)]
LedgerKeys(led) == {led[i].key : i \in 1..Len(led)}
LedgerGet(led, a) == led[CHOOSE i \in 1..Len(led) : led[i].key = a].val
LedgerAdd(led, a, n) ==
    [i \in 1..Len(led) |-> IF led[i].key = a THEN E(a, led[i].val + n) ELSE led[i]]

\* AdditionalLoop, had it counted the unknown slots as well
RECURSIVE AdditionalLoopNoSkip(_, _)
AdditionalLoopNoSkip(abilities, powers) ==
    IF powers = <<>> THEN Ok(abilities)
    ELSE IF Head(powers) \notin LedgerKeys(abilities) THEN Raise("KeyError", "")
    ELSE AdditionalLoopNoSkip(LedgerAdd(abilities, Head(powers), 3), Tail(powers))

\* for ability in self.additionalGearPowers: ... abilities[ability.name] += 3
RECURSIVE AdditionalLoop(_, _)
AdditionalLoop(abilities, powers) ==
    IF powers = <<>> THEN Ok(abilities)
    ELSE IF Lower(Head(powers)) = "unknown" THEN AdditionalLoop(abilities, Tail(powers))
    ELSE IF Head(powers) \notin LedgerKeys(abilities) THEN Raise("KeyError", "")
    ELSE AdditionalLoop(LedgerAdd(abilities, Head(powers), 3), Tail(powers))

\* gearSchema.calculate_abilities; a gear is given by the names of its
\* primaryGearPower and of its additionalGearPowers
gear_calculate_abilities(gear) ==
    IF gear.primaryGearPower \notin LedgerKeys(Zeroes(ALL_ABILITIES))
    THEN Raise("KeyError", "")
    ELSE AdditionalLoop(LedgerAdd(Zeroes(ALL_ABILITIES), gear.primaryGearPower, 10),
                        gear.additionalGearPowers)

Gear(primary, additional) ==
    [primaryGearPower |-> primary, additionalGearPowers |-> additional]

\* the names a slot can carry: the abilities, an empty slot in two
\* spellings, and a name the constants do not list
SlotNames == SeqRange(ALL_ABILITIES) \cup {"Unknown", "unknown", "Mystery"}
Gears ==
    { Gear(primary, additional) :
        primary \in SeqRange(ALL_ABILITIES) \cup {"Unknown", "Mystery"},
        additional \in SeqsUpTo(SlotNames, MaxSlots) }

\* a call with an argument: obj is what it is called on, or its first argument
CalledWith(x, a, name, out) ==
    /\ op = "init"
    /\ obj' = x
    /\ op' = name
    /\ arg' = a
    /\ \E r \in {out} :
           /\ ret' = r.val
           /\ exc' = r.exc
           /\ cause' = r.cause
    /\ UNCHANGED <<hier, walks, JUDGE_MAP>>

\* a call on a gear, a player, a team or a match: obj is what it is called on
Called(x, name, out) ==
    /\ op = "init"
    /\ obj' = x
    /\ op' = name
    /\ arg' = NoneV
    /\ \E r \in {out} :
           /\ ret' = r.val
           /\ exc' = r.exc
           /\ cause' = r.cause
    /\ UNCHANGED <<hier, walks, JUDGE_MAP>>

GearCalculateAbilities(gear) ==
    Called(gear, "gear.calculate_abilities", gear_calculate_abilities(gear))

\* sum(abilities[ability] for ability in names)
RECURSIVE SumOver(_, _)
SumOver(abilities, names) ==
    IF names = <<>> THEN 0
    ELSE LedgerGet(abilities, Head(names)) + SumOver(abilities, Tail(names))

\* Classify, had it looked for three equal slots before counting the points
ClassifyCompleteFirst(abilities) ==
    IF \E i \in 1..Len(ABILITIES) : LedgerGet(abilities, ABILITIES[i]) = 19 THEN "perfect"
    ELSE IF \E i \in 1..Len(ABILITIES) : LedgerGet(abilities, ABILITIES[i]) = 9 THEN "complete"
    ELSE IF SumOver(abilities, ABILITIES) < 19 THEN "incomplete"
    ELSE "mixed"

\* the four tests of classify_gear on the ledger of the gear
Classify(abilities) ==
    IF \E i \in 1..Len(ABILITIES) : LedgerGet(abilities, ABILITIES[i]) = 19 THEN "perfect"
    ELSE IF SumOver(abilities, ABILITIES) < 19 THEN "incomplete"
    ELSE IF \E i \in 1..Len(ABILITIES) : LedgerGet(abilities, ABILITIES[i]) = 9 THEN "complete"
    ELSE "mixed"

\* gearSchema.classify_gear
classify_gear(gear) ==
    Bind(gear_calculate_abilities(gear),
         LAMBDA r : IF r.exc # "" THEN r ELSE Ok(Classify(r.val)))

ClassifyGear(gear) == Called(gear, "gear.classify_gear", classify_gear(gear))

\* the ability names in the order of Python's str comparison
SortedNames ==
    << "Ability Doubler", "Comeback", "Drop Roller", "Haunt", "Ink Recovery Up",
       "Ink Resistance Up", "Ink Saver (Main)", "Ink Saver (Sub)",
       "Intensify Action", "Last-Ditch Effort", "Ninja Squid", "Object Shredder",
       "Opening Gambit", "Quick Respawn", "Quick Super Jump", "Respawn Punisher",
       "Run Speed Up", "Special Charge Up", "Special Power Up", "Special Saver",
       "Stealth Jump", "Sub Power Up", "Sub Resistance Up", "Swim Speed Up",
       "Tenacity", "Thermal Ink" >>
Rank(name) == CHOOSE i \in 1..Len(SortedNames) : SortedNames[i] = name

\* KeyLess, had the key been the points alone: equal points compare by
\* position, as a stable sort that is reversed leaves them
ValueLess(e1, e2, i1, i2) == e1.val < e2.val \/ (e1.val = e2.val /\ i1 > i2)

\* key=lambda item: (item[1], item[0]): the tuples compared
KeyLess(e1, e2, i1, i2) ==
    e1.val < e2.val \/ (e1.val = e2.val /\ Rank(e1.key) < Rank(e2.key))

\* sorted(abilities.items(), key=..., reverse=True)
RECURSIVE SortedReverse(_)
SortedReverse(es) ==
    IF es = <<>> THEN <<>>
    ELSE LET m == CHOOSE i \in 1..Len(es) :
                      \A j \in 1..Len(es) : j # i => KeyLess(es[j], es[i], j, i)
         IN  <<es[m]>> \o SortedReverse(SubSeq(es, 1, m - 1) \o SubSeq(es, m + 1, Len(es)))

\* for ability, value in gear_abilities.items(): abilities[ability] += value
RECURSIVE AddLedger(_, _)
AddLedger(abilities, gear_abilities) ==
    IF gear_abilities = <<>> THEN abilities
    ELSE AddLedger(LedgerAdd(abilities, Head(gear_abilities).key, Head(gear_abilities).val),
                   Tail(gear_abilities))

\* for gear in [self.headGear, self.clothingGear, self.shoesGear]
RECURSIVE GearsLoop(_, _)
GearsLoop(abilities, gears) ==
    IF gears = <<>> THEN Ok(abilities)
    ELSE Bind(gear_calculate_abilities(Head(gears)),
              LAMBDA r : IF r.exc # "" THEN r
                         ELSE GearsLoop(AddLedger(abilities, r.val), Tail(gears)))

\* playerSchema.calculate_abilities
player_calculate_abilities(player) ==
    Bind(GearsLoop(Zeroes(ALL_ABILITIES),
                   <<player.headGear, player.clothingGear, player.shoesGear>>),
         LAMBDA r : IF r.exc # "" THEN r
                    ELSE Ok(SelectSeq(SortedReverse(r.val), LAMBDA e : e.val > 0)))

\* the gears a player wears: any primary, with no slot, with two equal slots
\* around an unknown one, or with a slot of a name the constants do not list
PlayerGears ==
    { Gear(primary, additional) :
        primary \in SeqRange(ALL_ABILITIES),
        additional \in {<<>>, <<ABILITIES[2], "Unknown", ABILITIES[2]>>, <<"Mystery">>} }
Players ==
    { [headGear |-> h, clothingGear |-> c, shoesGear |-> g] :
        h \in PlayerGears, c \in PlayerGears, g \in PlayerGears }

PlayerCalculateAbilities(player) ==
    Called(player, "player.calculate_abilities", player_calculate_abilities(player))

----------------------------------------------------------------------------
(* Properties of the gear abilities *)

RECURSIVE SumVals(_)
SumVals(led) == IF led = <<>> THEN 0 ELSE Head(led).val + SumVals(Tail(led))

\* the secondary slots that are not unknown, and how many of them name a
KnownSlots(gear) ==
    {i \in 1..Len(gear.additionalGearPowers) :
        gear.additionalGearPowers[i] \notin {"Unknown", "UNKNOWN", "unknown"}}
SlotsOf(gear, a) == Cardinality({i \in KnownSlots(gear) : gear.additionalGearPowers[i] = a})

\* the ledger is as the claim says: all the names, 10 for the primary and 3
\* for every slot that is not unknown, 10 + 3k in all
LedgerAsClaimed(gear) ==
    /\ exc = ""
    /\ [i \in 1..Len(ret) |-> ret[i].key] = ALL_ABILITIES
    /\ \A i \in 1..Len(ret) :
          /\ ret[i].val >= 0
          /\ ret[i].val = (IF ret[i].key = gear.primaryGearPower THEN 10 ELSE 0)
                             + 3 * SlotsOf(gear, ret[i].key)
    /\ SumVals(ret) = 10 + 3 * Cardinality(KnownSlots(gear))

\* C12 as claimed: for an item whose primary ability is a known ability and
\* which has k secondary slots that are not unknown, the ledger has every
\* known ability with a value >= 0, 10 added for the primary and 3 for each
\* such slot, and sums to 10 + 3k.
C12_LedgerSum ==
    op = "gear.calculate_abilities" /\ obj.primaryGearPower \in SeqRange(ALL_ABILITIES)
        => LedgerAsClaimed(obj)

\* C12 as amended: the same for an item whose primary ability and whose
\* secondary slots that are not unknown all carry known abilities; a slot
\* with any other name makes the calculation fail with KeyError.
C12_LedgerSumOfKnown ==
    op = "gear.calculate_abilities" /\ obj.primaryGearPower \in SeqRange(ALL_ABILITIES) =>
        IF \A i \in KnownSlots(obj) : obj.additionalGearPowers[i] \in SeqRange(ALL_ABILITIES)
        THEN LedgerAsClaimed(obj)
        ELSE exc = "KeyError"

\* C12 witness: a primary, two slots with the same ability, one unknown
C12_Witness ==
    /\ op = "gear.calculate_abilities" /\ exc = ""
    /\ obj = Gear("Ink Recovery Up", <<"Ink Saver (Main)", "Unknown", "Ink Saver (Main)">>)
    /\ LedgerGet(ret, "Ink Saver (Main)") = 6 /\ LedgerGet(ret, "Ink Recovery Up") = 10
    /\ SumVals(ret) = 16

\* the points of ability a over the three items of a player
TotalOf(player, a) ==
    LedgerGet(gear_calculate_abilities(player.headGear).val, a)
    + LedgerGet(gear_calculate_abilities(player.clothingGear).val, a)
    + LedgerGet(gear_calculate_abilities(player.shoesGear).val, a)

GearsCalculate(player) ==
    \A g \in {player.headGear, player.clothingGear, player.shoesGear} :
        gear_calculate_abilities(g).exc = ""

\* C13: a player's ledger is the element-wise sum of the ledgers of the head,
\* clothing and shoes items without the entries that are zero, ordered by
\* descending points and, among equal points, by descending name.
C13_PlayerLedger ==
    op = "player.calculate_abilities" /\ GearsCalculate(obj) =>
        /\ exc = ""
        /\ LedgerKeys(ret) = {a \in SeqRange(ALL_ABILITIES) : TotalOf(obj, a) # 0}
        /\ \A i \in 1..Len(ret) : ret[i].val = TotalOf(obj, ret[i].key)
        /\ \A i \in 1..Len(ret) : \A j \in 1..Len(ret) :
              i < j => \/ ret[i].val > ret[j].val
                       \/ ret[i].val = ret[j].val /\ Rank(ret[i].key) > Rank(ret[j].key)

\* C13 witness: three primaries with 10 points each come in the order of
\* their names descending, after the 12 points of four slots
C13_Witness ==
    /\ op = "player.calculate_abilities" /\ exc = ""
    /\ obj.headGear = Gear("Comeback", <<>>)
    /\ obj.clothingGear = Gear("Last-Ditch Effort", <<ABILITIES[2], "Unknown", ABILITIES[2]>>)
    /\ obj.shoesGear = Gear("Ink Saver (Main)", <<ABILITIES[2], "Unknown", ABILITIES[2]>>)
    /\ ret = << E("Ink Saver (Sub)", 12), E("Last-Ditch Effort", 10),
                E("Ink Saver (Main)", 10), E("Comeback", 10) >>

\* the points the gear gives ability a, and all its abilities that can be
\* in a secondary slot
PointsOf(gear, a) == (IF gear.primaryGearPower = a THEN 10 ELSE 0) + 3 * SlotsOf(gear, a)
RECURSIVE PointsOver(_, _)
PointsOver(gear, names) ==
    IF names = <<>> THEN 0 ELSE PointsOf(gear, Head(names)) + PointsOver(gear, Tail(names))

\* the four rules in their order, the first rule asking for `most` points
Rules(gear, most) ==
    IF \E a \in SeqRange(ABILITIES) : PointsOf(gear, a) = most THEN "perfect"
    ELSE IF PointsOver(gear, ABILITIES) < 19 THEN "incomplete"
    ELSE IF \E a \in SeqRange(ABILITIES) : PointsOf(gear, a) = 9 THEN "complete"
    ELSE "mixed"

\* C14 as claimed: classify_gear applies four rules in order, the first
\* being 'perfect' when some non-primary-only ability has exactly the
\* primary weight plus the secondary weight, 10 + 3 points.
C14_RulesWithPrimaryPlusSecondary ==
    op = "gear.classify_gear" /\ exc = "" => ret = Rules(obj, 10 + 3)

\* C14 as amended: classify_gear returns one of the four names by four rules
\* in order: 'perfect' when some non-primary-only ability has exactly the
\* primary weight plus three times the secondary weight, 19 points, the
\* most one item can give one ability; else 'incomplete' when the points of
\* the non-primary-only abilities sum to less than 19; else 'complete' when
\* some non-primary-only ability has exactly 9 points; else 'mixed'.
C14_RulesInOrder ==
    op = "gear.classify_gear" /\ exc = "" =>
        /\ ret \in {"perfect", "incomplete", "complete", "mixed"}
        /\ ret = Rules(obj, 10 + 3 * 3)

\* C14 witness: a primary and three equal slots of another ability, 19
\* points in all and 9 of them for one ability, is complete
C14_Witness ==
    /\ op = "gear.classify_gear" /\ exc = "" /\ ret = "complete"
    /\ obj = Gear(ABILITIES[1], <<ABILITIES[2], ABILITIES[2], ABILITIES[2]>>)

NextGear ==
    \/ \E gear \in Gears : GearCalculateAbilities(gear)
    \/ \E gear \in Gears : ClassifyGear(gear)
    \/ \E player \in Players : PlayerCalculateAbilities(player)

SpecGear == Init /\ [][NextGear]_vars

----------------------------------------------------------------------------
(* Binned abilities (squidalytics/analytics/build_consensus/main.py) *)

\* calculate_num_bins, had it rounded down
NumBinsFloor(ability_points, bin_size) == ability_points \div bin_size

\* calculate_num_bins: int(np.ceil(ability_points / bin_size))
calculate_num_bins(ability_points, bin_size) ==
    IF ability_points % bin_size = 0 THEN ability_points \div bin_size
    ELSE ability_points \div bin_size + 1

\* f"{ability}: {i * bin_size + 1}-{j * bin_size}"
BinName(ability, start, end) == ability \o ": " \o ToString(start) \o "-" \o ToString(end)

\* the loop of bin_abilities over abilities.items()
RECURSIVE BinLoop(_, _, _)
BinLoop(items, bin_size, out) ==
    IF items = <<>> THEN Ok(out)
    ELSE LET ability == Head(items).key
             ability_points == Head(items).val
         IN  IF ability \in SeqRange(PRIMARY_ONLY)
             THEN BinLoop(Tail(items), bin_size, out \cup {ability})
             ELSE IF ability \in SeqRange(ABILITIES)
             THEN BinLoop(Tail(items), bin_size,
                          out \cup { BinName(ability, i * bin_size + 1, (i + 1) * bin_size) :
                                       i \in 0..(calculate_num_bins(ability_points, bin_size) - 1) })
             ELSE Raise("ValueError", "")

bin_abilities(abilities, bin_size) == BinLoop(abilities, bin_size, {})

\* dicts of ability points: each of four names is absent or has some points
PointsOrAbsent(name, points) == {<<>>} \cup {<<E(name, n)>> : n \in points}
AbilityDicts ==
    { p \o a \o b \o m :
        p \in PointsOrAbsent(PRIMARY_ONLY[1], {0, 10}),
        a \in PointsOrAbsent(ABILITIES[1], 0..MaxPoints),
        b \in PointsOrAbsent(ABILITIES[2], 0..MaxPoints),
        m \in PointsOrAbsent("Mystery", {3}) }

BinAbilities(abilities, bin_size) ==
    CalledWith(abilities, bin_size, "bin_abilities", bin_abilities(abilities, bin_size))

NextBins == \E abilities \in AbilityDicts : \E bin_size \in 1..MaxBinSize :
                BinAbilities(abilities, bin_size)

SpecBins == Init /\ [][NextBins]_vars

\* the labels of ret that are bins of the ability
BinsOf(ability) ==
    ret \cap { BinName(ability, start, end) :
                 start \in 0..(MaxPoints + MaxBinSize), end \in 0..(MaxPoints + MaxBinSize) }

\* C15: for a non-primary-only ability with n >= 1 points and bins of width
\* w >= 1 the labels '{ability}: {start}-{end}' are the k ranges 1..w,
\* w+1..2w, ..., one after the other without overlap, that cover 1..n; a
\* primary-only ability gives its name as the one label, whatever its points.
C15_BinsCover ==
    op = "bin_abilities" /\ exc = "" =>
        \A i \in 1..Len(obj) :
            LET ability == obj[i].key
                n == obj[i].val
            IN  /\ ability \in SeqRange(PRIMARY_ONLY) =>
                      ability \in ret /\ BinsOf(ability) = {}
                /\ ability \in SeqRange(ABILITIES) /\ n >= 1 =>
                      /\ ability \notin ret
                      /\ \E k \in 1..n :
                            /\ k * arg >= n
                            /\ BinsOf(ability) =
                                  {BinName(ability, (j - 1) * arg + 1, j * arg) : j \in 1..k}

\* C15 witness: 5 points in bins of 2 give 1-2, 3-4 and 5-6, and the
\* primary-only ability its name
C15_Witness ==
    /\ op = "bin_abilities" /\ exc = "" /\ arg = 2
    /\ obj = <<E(PRIMARY_ONLY[1], 10), E(ABILITIES[1], 5)>>
    /\ ret = {"Comeback", "Ink Saver (Main): 1-2", "Ink Saver (Main): 3-4",
              "Ink Saver (Main): 5-6"}

\* ---------------------------------------------------------------------
\* Teams and players (schemas/battle.py)
\* ---------------------------------------------------------------------

MaxPlayers == 2
MaxStat == 2

\* the scraped weapon table, as the range of each weapon it holds
versus_weapons == <<E("Splattershot", 2)>>

\* resultSchema: every field is optional (None when not recorded); the
\* paint ratio is kept in hundredths, so that paintRatio * 100 is its number
Result(kill, death, assist, special, paintRatio, score) ==
    [kill |-> kill, death |-> death, assist |-> assist, special |-> special,
     paintRatio |-> paintRatio, score |-> score]

IsNone(x) == x = NoneV

\* bool(x) of an optional number; a record defines neither __bool__ nor
\* __len__ and is always true
Truthy(x) == x.k = "int" /\ x.v # 0

\* teamSchema.score
team_score(team) ==
    IF ~IsNone(team.result) /\ Truthy(team.result.score)
    THEN team.result.score
    ELSE IF ~IsNone(team.result) /\ Truthy(team.result.paintRatio)
    THEN IntV(team.result.paintRatio.v)
    ELSE IntV(0)

\* a - b and a + b of optional numbers: None is no operand
Sub(a, b) == IF a.k = "int" /\ b.k = "int" THEN Ok(IntV(a.v - b.v)) ELSE Raise("TypeError", "")
Add(a, b) == IF a.k = "int" /\ b.k = "int" THEN Ok(IntV(a.v + b.v)) ELSE Raise("TypeError", "")

\* playerFullSchema.weapon_details, for the version of the match
weapon_details(player) ==
    IF HasKey([items |-> versus_weapons], player.weapon)
    THEN Ok(Get([items |-> versus_weapons], player.weapon))
    ELSE Raise("KeyError", player.weapon)

PlayerOut(player, abilities, details, append) ==
    [name |-> player.name, abilities |-> abilities, weapon |-> player.weapon,
     weapon_id |-> player.weapon_id, species |-> player.species,
     paint |-> player.paint, weapon_details |-> details,
     elimination |-> append.elimination, kill |-> append.kill,
     death |-> append.death, special |-> append.special,
     assist |-> append.assist]

Append0 == [elimination |-> IntV(0), kill |-> IntV(0), death |-> IntV(0),
            special |-> IntV(0), assist |-> IntV(0)]

\* the summary that takes the counts from the result without looking whether
\* there is one
SummaryNoDefault(player) ==
    Bind(player_calculate_abilities(player), LAMBDA abilities :
      IF abilities.exc # "" THEN abilities ELSE
      Bind(weapon_details(player), LAMBDA details :
        IF details.exc # "" THEN details ELSE
        IF IsNone(player.result) THEN Raise("AttributeError", "kill") ELSE
        Bind(Sub(player.result.kill, player.result.assist), LAMBDA kill :
          IF kill.exc # "" THEN kill ELSE
          Ok(PlayerOut(player, abilities.val, details.val,
                 [elimination |-> player.result.kill, kill |-> kill.val,
                  death |-> player.result.death, special |-> player.result.special,
                  assist |-> player.result.assist])))))

\* playerFullSchema.summary
player_summary_of(player) ==
    Bind(player_calculate_abilities(player), LAMBDA abilities :
      IF abilities.exc # "" THEN abilities ELSE
      Bind(weapon_details(player), LAMBDA details :
        IF details.exc # "" THEN details ELSE
        IF ~IsNone(player.result)
        THEN Bind(Sub(player.result.kill, player.result.assist), LAMBDA kill :
               IF kill.exc # "" THEN kill ELSE
               Ok(PlayerOut(player, abilities.val, details.val,
                      [elimination |-> player.result.kill, kill |-> kill.val,
                       death |-> player.result.death, special |-> player.result.special,
                       assist |-> player.result.assist])))
        ELSE Ok(PlayerOut(player, abilities.val, details.val, Append0))))

\* [player.summary(version=version) for player in self.players]
RECURSIVE Summaries(_, _)
Summaries(players, out) ==
    IF players = <<>> THEN Ok(out)
    ELSE Bind(player_summary_of(Head(players)), LAMBDA s :
           IF s.exc # "" THEN s ELSE Summaries(Tail(players), Append(out, s.val)))

\* the sum that stops after the first summary
SumKeyFirst(player_summaries, key, acc) ==
    IF acc.exc # "" \/ player_summaries = <<>> THEN acc
    ELSE Add(acc.val, Head(player_summaries)[key])

\* sum(player[key] for player in player_summaries), from the left, from 0
RECURSIVE SumKey(_, _, _)
SumKey(player_summaries, key, acc) ==
    IF acc.exc # "" \/ player_summaries = <<>> THEN acc
    ELSE SumKey(Tail(player_summaries), key, Add(acc.val, Head(player_summaries)[key]))

\* the team totals of given player summaries (detailed = False)
TeamTotal(team, player_summaries) ==
    LET kill == SumKey(player_summaries, "kill", Ok(IntV(0)))
        death == SumKey(player_summaries, "death", Ok(IntV(0)))
        special == SumKey(player_summaries, "special", Ok(IntV(0)))
        assist == SumKey(player_summaries, "assist", Ok(IntV(0)))
        paint == SumKey(player_summaries, "paint", Ok(IntV(0)))
    IN  IF kill.exc # "" THEN kill
        ELSE IF death.exc # "" THEN death
        ELSE IF special.exc # "" THEN special
        ELSE IF assist.exc # "" THEN assist
        ELSE IF paint.exc # "" THEN paint
        ELSE Ok([kill |-> kill.val, death |-> death.val, special |-> special.val,
                 assist |-> assist.val, paint |-> paint.val, score |-> team_score(team)])

\* teamSchema.team_summary(), player_summaries = None
team_summary(team) ==
    Bind(Summaries(team.players, <<>>), LAMBDA s :
      IF s.exc # "" THEN s ELSE TeamTotal(team, s.val))

\* the floor that lets the denominator through as it is
Max1Through(x) == x

\* max(x, 1) of a number
Max1(x) == IF x.k = "int" /\ x.v < 1 THEN IntV(1) ELSE x

\* a / b of numbers: the quotient is kept exact, as numerator and denominator
Quot(num, den) == [num |-> num, den |-> den]
TrueDiv(a, b) ==
    IF a.k # "int" \/ b.k # "int" THEN Raise("TypeError", "")
    ELSE IF b.v = 0 THEN Raise("ZeroDivisionError", "")
    ELSE Ok(Quot(a.v, b.v))

\* ratio(key): player_dict[key] / max(team_stats[key], 1)
ratio(player_dict, team_stats, key) == TrueDiv(player_dict[key], Max1(team_stats[key]))

\* the six entries player_summary adds to one player's summary, in the order
\* it works them out
AddRatios(player_dict, team_stats) ==
    Bind(ratio(player_dict, team_stats, "kill"), LAMBDA kill_ratio :
      IF kill_ratio.exc # "" THEN kill_ratio ELSE
      Bind(ratio(player_dict, team_stats, "death"), LAMBDA death_ratio :
        IF death_ratio.exc # "" THEN death_ratio ELSE
        Bind(ratio(player_dict, team_stats, "special"), LAMBDA special_ratio :
          IF special_ratio.exc # "" THEN special_ratio ELSE
          Bind(ratio(player_dict, team_stats, "assist"), LAMBDA assist_ratio :
            IF assist_ratio.exc # "" THEN assist_ratio ELSE
            Bind(ratio(player_dict, team_stats, "paint"), LAMBDA paint_ratio :
              IF paint_ratio.exc # "" THEN paint_ratio ELSE
              Bind(TrueDiv(player_dict.kill, Max1(player_dict.death)), LAMBDA kdr :
                IF kdr.exc # "" THEN kdr ELSE
                Ok([name |-> player_dict.name, abilities |-> player_dict.abilities,
                    weapon |-> player_dict.weapon, weapon_id |-> player_dict.weapon_id,
                    species |-> player_dict.species, paint |-> player_dict.paint,
                    weapon_details |-> player_dict.weapon_details,
                    elimination |-> player_dict.elimination, kill |-> player_dict.kill,
                    death |-> player_dict.death, special |-> player_dict.special,
                    assist |-> player_dict.assist,
                    kill_ratio |-> kill_ratio.val, death_ratio |-> death_ratio.val,
                    special_ratio |-> special_ratio.val, assist_ratio |-> assist_ratio.val,
                    paint_ratio |-> paint_ratio.val, kdr |-> kdr.val])))))))

\* for player_dict in out: the ratios of every summary, against one team total
RECURSIVE Detailed(_, _, _)
Detailed(out, team_stats, done) ==
    IF out = <<>> THEN Ok(done)
    ELSE Bind(AddRatios(Head(out), team_stats), LAMBDA d :
           IF d.exc # "" THEN d ELSE Detailed(Tail(out), team_stats, Append(done, d.val)))

\* teamSchema.player_summary(detailed): the detailed call works out the team
\* totals and, from them, the ratios of every player summary
team_player_summary(team, detailed) ==
    Bind(Summaries(team.players, <<>>), LAMBDA s :
      IF s.exc # "" \/ ~detailed THEN s
      ELSE Bind(TeamTotal(team, s.val), LAMBDA t :
             IF t.exc # "" THEN t ELSE Detailed(s.val, t.val, <<>>)))

\* inputs: results, players and teams
OptStats == {NoneV} \cup {IntV(n) : n \in 0..MaxStat}
PlayerResults ==
    {NoneV, Result(NoneV, NoneV, NoneV, NoneV, NoneV, NoneV),
     Result(IntV(MaxStat), NoneV, IntV(1), IntV(0), NoneV, NoneV)}
      \cup { Result(IntV(k), IntV(1), IntV(a), IntV(1), NoneV, NoneV) :
               k \in 1..MaxStat, a \in 0..1 }
TeamResults ==
    {NoneV} \cup { Result(NoneV, NoneV, NoneV, NoneV, paintRatio, s) :
                     paintRatio \in OptStats, s \in OptStats }

FullPlayer(name, weapon, gear, result) ==
    [name |-> name, weapon |-> weapon, weapon_id |-> "V2VhcG9u", species |-> "INKLING",
     paint |-> IntV(1), headGear |-> gear, clothingGear |-> gear, shoesGear |-> gear,
     result |-> result]

FullPlayers ==
    { FullPlayer("a#1", "Splattershot", Gear(ABILITIES[1], <<>>), result) :
        result \in PlayerResults }
      \cup { FullPlayer("b#2", "Splattershot", Gear(ABILITIES[1], <<"Mystery">>), NoneV),
             FullPlayer("b#2", "Mystery Shot", Gear(ABILITIES[1], <<>>), NoneV),
             FullPlayer("b#2", "Splattershot", Gear(ABILITIES[1], <<>>),
                        Result(IntV(1), IntV(0), IntV(0), IntV(0), NoneV, NoneV)) }

Team(players, result) == [players |-> players, result |-> result]
Teams == { Team(players, result) :
             players \in UNION { [1..n -> FullPlayers] : n \in 0..MaxPlayers },
             result \in TeamResults }

TeamScore(team) == Called(team, "team.score", Ok(team_score(team)))
TeamSummary(team) == Called(team, "team_summary", team_summary(team))
PlayerSummary(player) == Called(player, "player.summary", player_summary_of(player))
TeamPlayerSummary(team, detailed) ==
    CalledWith(team, detailed, "team.player_summary", team_player_summary(team, detailed))

NextTeam ==
    \/ \E team \in Teams : TeamScore(team)
    \/ \E team \in Teams : TeamSummary(team)
    \/ \E player \in FullPlayers : PlayerSummary(player)
    \/ \E team \in Teams, detailed \in BOOLEAN : TeamPlayerSummary(team, detailed)

SpecTeam == Init /\ [][NextTeam]_vars

\* C16: a team's score is the score of its result when one is recorded (not
\* None), else 100 times the recorded paint ratio when one is recorded, else
\* (no score, no paint ratio or no result) 0.
C16_ScoreIfRecorded ==
    op = "team.score" =>
        ret = IF ~IsNone(obj.result) /\ ~IsNone(obj.result.score)
              THEN obj.result.score
              ELSE IF ~IsNone(obj.result) /\ ~IsNone(obj.result.paintRatio)
              THEN IntV(obj.result.paintRatio.v)
              ELSE IntV(0)

\* the sum of the values of a key over the summaries of the players
RECURSIVE SumOfSummaries(_, _)
SumOfSummaries(players, key) ==
    IF players = <<>> THEN 0
    ELSE Bind(player_summary_of(Head(players)), LAMBDA s :
           s.val[key].v + SumOfSummaries(Tail(players), key))

\* C17: each of team_summary()'s kill, death, special, assist and paint is
\* the sum of the same-named value over the summaries of all the players of
\* the team, and its score is the team's score.
C17_TeamTotals ==
    op = "team_summary" /\ exc = "" =>
        /\ \A key \in {"kill", "death", "special", "assist", "paint"} :
               ret[key] = IntV(SumOfSummaries(obj.players, key))
        /\ ret.score = team_score(obj)

\* C17 witness: two players, 2 kills with 1 assist and 1 kill, a score of 2
C17_Witness ==
    /\ op = "team_summary" /\ exc = ""
    /\ Len(obj.players) = 2
    /\ obj.players[1].result = Result(IntV(2), IntV(1), IntV(1), IntV(1), NoneV, NoneV)
    /\ obj.players[2].result = Result(IntV(1), IntV(0), IntV(0), IntV(0), NoneV, NoneV)
    /\ obj.result = Result(NoneV, NoneV, NoneV, NoneV, NoneV, IntV(2))
    /\ ret = [kill |-> IntV(2), death |-> IntV(1), special |-> IntV(1),
              assist |-> IntV(1), paint |-> IntV(2), score |-> IntV(2)]

\* a result with every count recorded
RecordedResult == Result(IntV(1), IntV(1), IntV(1), IntV(1), NoneV, NoneV)

\* C18: a player's summary does not raise because the result is absent (if
\* it raises without a result, it raises the same with one); without a
\* result elimination, kill, death, special and assist are all 0; with a
\* result elimination is the recorded kill count and kill is the recorded
\* kill count minus the recorded assist count.
C18_AbsentResultIsZeros ==
    op = "player.summary" =>
        /\ IsNone(obj.result) /\ exc # "" =>
               player_summary_of([obj EXCEPT !.result = RecordedResult]).exc = exc
        /\ IsNone(obj.result) /\ exc = "" =>
               \A key \in {"elimination", "kill", "death", "special", "assist"} :
                   ret[key] = IntV(0)
        /\ ~IsNone(obj.result) /\ exc = "" =>
               /\ ret.elimination = obj.result.kill
               /\ ret.kill = IntV(obj.result.kill.v - obj.result.assist.v)

\* C18 witness: the summary of a player without a result is returned, with
\* zeros
C18_Witness ==
    /\ op = "player.summary" /\ exc = ""
    /\ IsNone(obj.result)
    /\ ret.name = "a#1"
    /\ ret.elimination = IntV(0) /\ ret.kill = IntV(0) /\ ret.assist = IntV(0)

\* ---------------------------------------------------------------------
\* Matches (schemas/battle.py: vsHistoryDetailSchema, battleNodeSchema)
\* ---------------------------------------------------------------------

MaxOtherTeams == 2
MaxAwards == 2

\* a str of a summary, its characters not looked at; a nested value of a
\* summary (a dict, a list or a tuple) with what it holds
Text(s) == V("str", s, 0, <<>>)
Nested(kind, payload) == V(kind, "", 0, <<payload>>)

Tricolor == "Flat summary does not support tricolor matches."
NoStats == "Could not find user's stats."
PlayedTimeFormat == "2023-01-01T00:00:00Z"

\* vsHistoryDetailSchema.version: the played time is parsed with
\* "%Y-%m-%dT%H:%M:%SZ" and mapped to the version released before it
version(match) ==
    IF match.playedTime = PlayedTimeFormat THEN Ok(Text("2.1.0"))
    ELSE Raise("ValueError", "time data does not match format")

\* vsHistoryDetailSchema.count_awards
count_awards(match) == [i \in 1..Len(match.awards) |-> <<match.awards[i].name, match.awards[i].rank>>]

\* the first player summary with the name of the acting player
RECURSIVE FindStats(_, _)
FindStats(players_summary, full_name) ==
    IF players_summary = <<>> THEN Raise("ValueError", NoStats)
    ELSE IF Head(players_summary).name = full_name THEN Ok(Head(players_summary))
    ELSE FindStats(Tail(players_summary), full_name)

\* vsHistoryDetailSchema.my_stats()
my_stats(match) ==
    Bind(team_player_summary(match.myTeam, FALSE), LAMBDA s :
      IF s.exc # "" THEN s ELSE FindStats(s.val, match.player))

\* [f(team) for team in self.otherTeams], f one of player_summary(detailed=True)
\* and team_summary()
RECURSIVE OverTeams(_, _, _)
OverTeams(teams, detailed, out) ==
    IF teams = <<>> THEN Ok(out)
    ELSE Bind(IF detailed THEN team_player_summary(Head(teams), TRUE)
                          ELSE team_summary(Head(teams)), LAMBDA s :
           IF s.exc # "" THEN s ELSE OverTeams(Tail(teams), detailed, Append(out, s.val)))

\* vsHistoryDetailSchema.summary(): the entries of the dict display, worked
\* out in the order they are written
summary(match) ==
    Bind(version(match), LAMBDA v :
      IF v.exc # "" THEN v ELSE
      Bind(my_stats(match), LAMBDA stats :
        IF stats.exc # "" THEN stats ELSE
        Bind(team_player_summary(match.myTeam, TRUE), LAMBDA my_team :
          IF my_team.exc # "" THEN my_team ELSE
          Bind(OverTeams(match.otherTeams, TRUE, <<>>), LAMBDA other_teams :
            IF other_teams.exc # "" THEN other_teams ELSE
            Bind(team_summary(match.myTeam), LAMBDA my_team_stats :
              IF my_team_stats.exc # "" THEN my_team_stats ELSE
              Bind(OverTeams(match.otherTeams, FALSE, <<>>), LAMBDA other_team_stats :
                IF other_team_stats.exc # "" THEN other_team_stats ELSE
                Ok(<<E("me", Text(match.player)),
                     E("rule", Text(match.vsRule)),
                     E("mode", Text(match.vsMode)),
                     E("stage", Text(match.vsStage)),
                     E("judgement", Text(match.judgement)),
                     E("knockout", match.knockout),
                     E("duration", match.duration),
                     E("played_time", Text(match.playedTime)),
                     E("version", v.val),
                     E("my_stats", Nested("dict", stats.val)),
                     E("my_team", Nested("list", my_team.val)),
                     E("other_teams", Nested("list", other_teams.val)),
                     E("awards", Nested("list", count_awards(match))),
                     E("my_team_stats", Nested("dict", my_team_stats.val)),
                     E("other_team_stats", Nested("list", other_team_stats.val))>>)))))))

\* dict.pop(key) of a key the dict has: the value, and the entries left
Popped(es, key) == Get([items |-> es], key).items[1]
Pop(es, key) == SelectSeq(es, LAMBDA e : e.key # key)

\* {k: my_stats[k] for k in my_stats_keys}
StatsEntries(stats) ==
    <<E("weapon", Text(stats.weapon)), E("paint", stats.paint),
      E("elimination", stats.elimination), E("kill", stats.kill),
      E("death", stats.death), E("special", stats.special),
      E("assist", stats.assist)>>

\* {f"{prefix}{k}s": team_stats[k] for k in team_stats}
TeamEntries(prefix, team_stats) ==
    <<E(prefix \o "kills", team_stats.kill), E(prefix \o "deaths", team_stats.death),
      E(prefix \o "specials", team_stats.special), E(prefix \o "assists", team_stats.assist),
      E(prefix \o "paints", team_stats.paint), E(prefix \o "scores", team_stats.score)>>

\* for i, award in enumerate(awards): award_{i + 1} and award_{i + 1}_rank
RECURSIVE AwardEntries(_, _)
AwardEntries(awards, i) ==
    IF i >= Len(awards) THEN <<>>
    ELSE <<E("award_" \o ToString(i + 1), Text(awards[i + 1][1])),
           E("award_" \o ToString(i + 1) \o "_rank", Text(awards[i + 1][2]))>>
           \o AwardEntries(awards, i + 1)

\* match_summary after the summary is computed
Flatten(es) ==
    LET summary1 == Pop(Pop(Pop(Pop(Pop(es, "my_team"), "other_teams"), "my_stats"),
                            "my_team_stats"), "other_team_stats")
        stats == Popped(es, "my_stats")
        my_team_stats == Popped(es, "my_team_stats")
        other_team_stats == Popped(es, "other_team_stats")
    IN  IF other_team_stats = <<>> THEN Raise("IndexError", "")
        ELSE Ok(DictUpdate(Pop(DictUpdate(DictUpdate(DictUpdate(summary1,
                     StatsEntries(stats)),
                     TeamEntries("my_team_", my_team_stats)),
                     TeamEntries("other_team_", other_team_stats[1])), "awards"),
                   AwardEntries(Popped(es, "awards"), 0)))

\* match_summary that computes the summary before it looks at the teams
MatchSummarySummaryFirst(match) ==
    Bind(summary(match), LAMBDA s :
      IF s.exc # "" THEN s
      ELSE IF Len(match.otherTeams) > 1 THEN Raise("ValueError", Tricolor)
      ELSE Flatten(s.val))

\* battleNodeSchema.match_summary()
match_summary(match) ==
    IF Len(match.otherTeams) > 1 THEN Raise("ValueError", Tricolor)
    ELSE Bind(summary(match), LAMBDA s :
           IF s.exc # "" THEN s ELSE Flatten(s.val))

\* inputs: awards, teams and matches
Awards == {[name |-> "#1 Turf Inker", rank |-> "GOLD"],
           [name |-> "#2 Splatter", rank |-> "SILVER"]}
PlayerA == FullPlayer("a#1", "Splattershot", Gear(ABILITIES[1], <<>>),
                      Result(IntV(2), IntV(1), IntV(1), IntV(1), NoneV, NoneV))
PlayerB == FullPlayer("b#2", "Splattershot", Gear(ABILITIES[1], <<>>),
                      Result(IntV(1), IntV(0), IntV(0), IntV(0), NoneV, NoneV))
PlayerUnknownWeapon == FullPlayer("b#2", "Mystery Shot", Gear(ABILITIES[1], <<>>), NoneV)
MatchTeams ==
    {Team(<<PlayerA, PlayerB>>, Result(NoneV, NoneV, NoneV, NoneV, NoneV, IntV(2))),
     Team(<<PlayerB>>, Result(NoneV, NoneV, NoneV, NoneV, IntV(1), NoneV)),
     Team(<<PlayerA, PlayerUnknownWeapon>>, NoneV)}
Match(player, knockout, playedTime, myTeam, otherTeams, awards) ==
    [player |-> player, vsRule |-> "Turf War", vsMode |-> "REGULAR",
     vsStage |-> "Scorch Gorge", judgement |-> "WIN", knockout |-> knockout,
     duration |-> IntV(1), playedTime |-> playedTime,
     myTeam |-> myTeam, otherTeams |-> otherTeams, awards |-> awards]
Matches ==
    { Match(player, knockout, playedTime, myTeam, otherTeams, awards) :
        player \in {"a#1", "c#3"},
        knockout \in {NoneV, Text("NEITHER")},
        playedTime \in {PlayedTimeFormat, "yesterday"},
        myTeam \in MatchTeams,
        otherTeams \in UNION { [1..n -> MatchTeams] : n \in 0..MaxOtherTeams },
        awards \in UNION { [1..n -> Awards] : n \in 0..MaxAwards } }

MatchSummary(match) == Called(match, "match_summary", match_summary(match))
MatchSummaryOf(match) == Called(match, "summary", summary(match))

NextMatch ==
    \/ \E match \in Matches : MatchSummary(match)
    \/ \E match \in Matches : MatchSummaryOf(match)

SpecMatch == Init /\ [][NextMatch]_vars

\* C19: match_summary raises the ValueError of tricolor matches for every
\* match with more than one opposing team, whatever computing its summary
\* would do, and never raises that error for a match with exactly one
\* opposing team.
C19_TricolorRejected ==
    op = "match_summary" =>
        /\ Len(obj.otherTeams) > 1 =>
               exc = "ValueError" /\ cause = Tricolor /\ ret = NoneV
        /\ Len(obj.otherTeams) = 1 =>
               ~(exc = "ValueError" /\ cause = Tricolor)

\* C19 witness: a match with two opposing teams whose summary cannot be
\* computed (a played time that does not parse) is rejected as tricolor
C19_Witness ==
    /\ op = "match_summary"
    /\ Len(obj.otherTeams) = 2
    /\ obj.playedTime = "yesterday"
    /\ exc = "ValueError" /\ cause = Tricolor

\* the keys the flat summary of a match with n awards is said to have
ListedKeys(n) ==
    {"me", "rule", "mode", "stage", "judgement", "knockout", "duration", "played_time",
     "weapon", "paint", "elimination", "kill", "death", "special", "assist"}
      \cup { prefix \o k \o "s" : prefix \in {"my_team_", "other_team_"},
                                 k \in {"kill", "death", "special", "assist", "paint", "score"} }
      \cup { "award_" \o ToString(i) : i \in 1..n }
      \cup { "award_" \o ToString(i) \o "_rank" : i \in 1..n }

KeysOf(es) == { es[i].key : i \in 1..Len(es) }

\* the awards are in award_i and award_i_rank, in the order of the list, and
\* no value is a mapping or a sequence
AwardsAndFlat ==
    /\ \A i \in 1..Len(obj.awards) :
           /\ HasKey([items |-> ret], "award_" \o ToString(i))
           /\ HasKey([items |-> ret], "award_" \o ToString(i) \o "_rank")
           /\ Get([items |-> ret], "award_" \o ToString(i)) = Text(obj.awards[i].name)
           /\ Get([items |-> ret], "award_" \o ToString(i) \o "_rank") = Text(obj.awards[i].rank)
    /\ \A i \in 1..Len(ret) : ret[i].val.k \in {"str", "int", "none"}

\* C20: for a match with exactly one opposing team and N awards the mapping
\* match_summary returns has exactly the keys me, rule, mode, stage,
\* judgement, knockout, duration, played_time, weapon, paint, elimination,
\* kill, death, special, assist, my_team_{k}s and other_team_{k}s for the six
\* team stats k, and award_i and award_i_rank for i = 1..N holding the i-th
\* award's name and rank; no other key, and no value is a mapping or a
\* sequence.
C20_KeysAsListed ==
    op = "match_summary" /\ exc = "" /\ Len(obj.otherTeams) = 1 =>
        /\ KeysOf(ret) = ListedKeys(Len(obj.awards))
        /\ AwardsAndFlat

\* ---------------------------------------------------------------------
\* Versions (data/scrape_version_releases.py)
\* ---------------------------------------------------------------------

MaxTime == 3
MaxReleases == 2

\* a datetime: its wall clock and its tzinfo, None or the offset from UTC;
\* aware datetimes compare by their instant
DateTime(clock, tzinfo) == [clock |-> clock, tzinfo |-> tzinfo]
Instant(date) == date.clock - date.tzinfo.v

\* the entries sorted by their value, the sort being stable (insertion sort)
RECURSIVE InsertByValue(_, _)
InsertByValue(sorted, e) ==
    IF sorted = <<>> THEN <<e>>
    ELSE IF Instant(sorted[Len(sorted)].val) <= Instant(e.val) THEN Append(sorted, e)
    ELSE Append(InsertByValue(SubSeq(sorted, 1, Len(sorted) - 1), e), sorted[Len(sorted)])

RECURSIVE SortByValue(_, _)
SortByValue(es, sorted) ==
    IF es = <<>> THEN sorted
    ELSE SortByValue(Tail(es), InsertByValue(sorted, Head(es)))

\* map_date_to_version, version_dates being what get_version_release_dates()
\* gives
map_date_to_version(version_dates, date) ==
    LET utc == IF IsNone(date.tzinfo) THEN DateTime(date.clock, IntV(0)) ELSE date
        before == SelectSeq(version_dates, LAMBDA e : Instant(e.val) < Instant(utc))
        sorted == SortByValue(before, <<>>)
    IN  IF sorted = <<>> THEN Raise("IndexError", "")
        ELSE Ok(Text(sorted[Len(sorted)].key))

\* inputs: the scraped releases, each at midnight UTC, and the dates
VersionLabels == {"1.0.0", "1.1.0", "1.1.2"}
VersionDates ==
    { es \in UNION { [1..n -> { E(label, DateTime(t, IntV(0))) :
                                  label \in VersionLabels, t \in 0..MaxTime }] :
                     n \in 0..MaxReleases } :
        \A i, j \in 1..Len(es) : i # j => es[i].key # es[j].key }
Dates == { DateTime(clock, tzinfo) :
             clock \in 0..(MaxTime + 1), tzinfo \in {NoneV, IntV(0), IntV(1)} }

MapDateToVersion(version_dates, date) ==
    CalledWith(date, version_dates, "map_date_to_version",
               map_date_to_version(version_dates, date))

NextVersion == \E version_dates \in VersionDates : \E date \in Dates :
                   MapDateToVersion(version_dates, date)

SpecVersion == Init /\ [][NextVersion]_vars

\* the instant of a date, a naive one being taken as UTC
UtcInstant(date) == IF IsNone(date.tzinfo) THEN date.clock ELSE Instant(date)

\* C21: map_date_to_version returns the label of the latest release whose
\* release time is at or before the given time, a naive time being taken as
\* UTC.
C21_LatestAtOrBefore ==
    op = "map_date_to_version" =>
        \A i \in 1..Len(arg) :
            Instant(arg[i].val) <= UtcInstant(obj) =>
                /\ exc = ""
                /\ \E j \in 1..Len(arg) :
                       /\ ret = Text(arg[j].key)
                       /\ Instant(arg[j].val) <= UtcInstant(obj)
                       /\ \A k \in 1..Len(arg) :
                              Instant(arg[k].val) <= UtcInstant(obj) =>
                                  Instant(arg[k].val) <= Instant(arg[j].val)

\* ---------------------------------------------------------------------
\* The dataframe accessor (analytics/pandas/accessor.py)
\* ---------------------------------------------------------------------

MaxRows == 3

\* Series.map(mapping): the value of each key, nan for what is no key
SeriesMap(series, mapping) ==
    [i \in 1..Len(series) |->
        IF HasKey([items |-> mapping], series[i])
        THEN Get([items |-> mapping], series[i]) ELSE NaN]

\* the local JUDGE_MAP and the shared one after the lines before the return
\* of numerical_judgement, had the local one not been a copy
JudgeMapsShared(shared, include_exempt) ==
    LET local == IF ~include_exempt THEN SetItem(shared, "EXEMPTED_LOSE", NaN)
                 ELSE shared
    IN  [local |-> local, shared |-> local]

\* JUDGE_MAP = self.JUDGE_MAP.copy(); if not include_exempt: JUDGE_MAP[...] = nan
JudgeMaps(shared, include_exempt) ==
    LET local == IF ~include_exempt THEN SetItem(shared, "EXEMPTED_LOSE", NaN)
                 ELSE shared
    IN  [local |-> local, shared |-> shared]

Judgements(df) == [i \in 1..Len(df) |-> df[i].judgement]

\* SquidalyticsAccessor.numerical_judgement
numerical_judgement(df, shared, include_exempt) ==
    SeriesMap(Judgements(df), JudgeMaps(shared, include_exempt).local)

\* inputs: frames of up to MaxRows rows
StageNames == {"A", "B"}
RuleNames == {"1", "2"}
Row(stage, rule, judgement) == [stage |-> stage, rule |-> rule, judgement |-> judgement]
Rows == {Row("A", "1", "WIN"), Row("A", "1", "DRAW"), Row("A", "2", "LOSE"),
         Row("B", "1", "LOSE"), Row("B", "2", "EXEMPTED_LOSE"),
         Row("A", "2", "DEEMED_LOSE")}
Frames == UNION { [1..n -> Rows] : n \in 0..MaxRows }

\* the columns argument: a str or a list of str
ColStr(name) == [k |-> "str", name |-> name]
ColList(names) == [k |-> "list", names |-> names]
ColumnArgs ==
    {ColStr("stage"), ColStr("rule"), ColList(<<"stage">>), ColList(<<"rule">>),
     ColList(<<"stage", "rule">>), ColList(<<"rule", "stage">>)}

\* the key of a row in a groupby of the columns
GroupKey(row, columns) == [i \in 1..Len(columns) |-> row[columns[i]]]

\* the keys of a groupby that had a group for every combination of the values
\* seen in each column
GroupsProduct(df, columns) ==
    { key \in UNION { [1..Len(columns) -> StageNames \cup RuleNames] } :
        \A c \in 1..Len(columns) : \E i \in 1..Len(df) : df[i][columns[c]] = key[c] }

\* df.groupby(columns): a group for every key some row has
Groups(df, columns) == { GroupKey(df[i], columns) : i \in 1..Len(df) }

\* the numbers (not nan) of a series at the rows of a group, summed and counted
RECURSIVE GroupSum(_, _, _, _, _)
GroupSum(df, columns, key, series, i) ==
    IF i > Len(df) THEN [sum |-> 0, count |-> 0]
    ELSE LET rest == GroupSum(df, columns, key, series, i + 1)
         IN  IF GroupKey(df[i], columns) = key /\ series[i] # NaN
             THEN [sum |-> rest.sum + series[i].v, count |-> rest.count + 1]
             ELSE rest

\* the mean of halves as a fraction, nan for no number at all
Mean(sc) == IF sc.count = 0 THEN NaN ELSE [num |-> sc.sum, den |-> 2 * sc.count]

\* SquidalyticsAccessor.winrate_grid
winrate_grid(df, shared, columns) ==
    LET result_float == numerical_judgement(df, shared, TRUE)
        cols == IF columns.k = "str" THEN <<columns.name>> ELSE columns.names
        groupby == Groups(df, cols)
    IN  [winrate |-> [key \in groupby |-> Mean(GroupSum(df, cols, key, result_float, 1))],
         wincount |-> [key \in groupby |-> GroupSum(df, cols, key, result_float, 1).count]]

WinrateGrid(df, columns) ==
    CalledWith(df, columns, "winrate_grid", Ok(winrate_grid(df, JUDGE_MAP, columns)))

\* a call of numerical_judgement(include_exempt) on the accessor of a frame
Judge(df, include_exempt) ==
    /\ obj' = df
    /\ op' = "numerical_judgement"
    /\ arg' = include_exempt
    /\ ret' = numerical_judgement(df, JUDGE_MAP, include_exempt)
    /\ JUDGE_MAP' = JudgeMaps(JUDGE_MAP, include_exempt).shared
    /\ UNCHANGED <<hier, exc, cause, walks>>

\* df.squidalytics.numerical_judgement(include_exempt), and the same frame
\* asked once more
NumericalJudgement(df, include_exempt) == op = "init" /\ Judge(df, include_exempt)
NumericalJudgementAgain(include_exempt) ==
    op = "numerical_judgement" /\ Judge(obj, include_exempt)

NextAccessor ==
    \/ \E df \in Frames : \E include_exempt \in BOOLEAN :
           NumericalJudgement(df, include_exempt)
    \/ \E include_exempt \in BOOLEAN : NumericalJudgementAgain(include_exempt)
    \/ \E df \in Frames : \E columns \in ColumnArgs : WinrateGrid(df, columns)

SpecAccessor == Init /\ [][NextAccessor]_vars

\* C23: numerical_judgement maps WIN to 1, LOSE to 0, DRAW to 0.5 and
\* EXEMPTED_LOSE to 0.5 by default and to the missing value when
\* include_exempt is False (so the option changes EXEMPTED_LOSE rows only),
\* and JUDGE_MAP is what it was before either call.
C23_JudgementNumbers ==
    /\ JUDGE_MAP = JudgeMapLiteral
    /\ op = "numerical_judgement" =>
           /\ Len(ret) = Len(obj)
           /\ \A i \in 1..Len(obj) :
                  /\ obj[i].judgement = "WIN" => ret[i] = IntV(2)
                  /\ obj[i].judgement = "LOSE" => ret[i] = IntV(0)
                  /\ obj[i].judgement = "DRAW" => ret[i] = IntV(1)
                  /\ obj[i].judgement = "EXEMPTED_LOSE" =>
                         ret[i] = IF arg THEN IntV(1) ELSE NaN

\* C23 witness: a frame with an exempted row and a win, exempted rows left out
C23_Witness ==
    /\ op = "numerical_judgement" /\ arg = FALSE
    /\ Judgements(obj) = <<"EXEMPTED_LOSE", "WIN", "DRAW">>
    /\ ret = <<NaN, IntV(2), IntV(1)>>

\* the rows of obj with the key in the columns, and those of them with a
\* judgement that has a number
RowsOf(columns, key) == { i \in 1..Len(obj) : GroupKey(obj[i], columns) = key }
Judged(rows, names) == Cardinality({ i \in rows : obj[i].judgement \in names })
NumberedRows(rows) == Judged(rows, {"WIN", "LOSE", "DRAW", "EXEMPTED_LOSE"})

\* the columns asked for, as a list
ArgColumns == IF arg.k = "str" THEN <<arg.name>> ELSE arg.names

\* every entry is the mean and the count of the numbered rows of its key
EntriesAreMeans ==
    /\ DOMAIN ret.winrate = DOMAIN ret.wincount
    /\ \A key \in DOMAIN ret.winrate :
           LET rows == RowsOf(ArgColumns, key)
               n == NumberedRows(rows)
           IN  /\ ret.wincount[key] = n
               /\ ret.winrate[key] =
                      IF n = 0 THEN NaN
                      ELSE [num |-> 2 * Judged(rows, {"WIN"})
                                      + Judged(rows, {"DRAW", "EXEMPTED_LOSE"}),
                            den |-> 2 * n]

\* a single column name gives what the list of that name gives
StrAsList ==
    arg.k = "str" => ret = winrate_grid(obj, JUDGE_MAP, ColList(<<arg.name>>))

ListOfMappings(value) ==
    /\ value.k = "list" /\ Len(value.items) > 0
    /\ \A j \in 1..Len(value.items) : value.items[j].val.k = "dict"
ListOfNoMapping(value) ==
    /\ value.k = "list"
    /\ \A j \in 1..Len(value.items) : value.items[j].val.k # "dict"

\* C25: in a constructed record a field given a non-empty list of mappings
\* holds, in the order of the mappings, the records of the element type the
\* field declares, one hydrated from each mapping; if the declared type has
\* no element type the field holds the empty list; a field given an empty
\* list or a list without mappings holds the list it was given.
C25_ListsOfMappings ==
    op = "construct" /\ exc = "" /\ IsDataclass(arg.cls) =>
        \A i \in 1..Len(arg.raw.items) :
            LET key == arg.raw.items[i].key
                value == arg.raw.items[i].val
            IN  /\ ListOfMappings(value) /\ HasArgs(AnnOf(arg.cls, key)) =>
                       /\ Get(obj, key).k = "list"
                       /\ Len(Get(obj, key).items) = Len(value.items)
                       /\ \A j \in 1..Len(value.items) :
                              /\ Get(obj, key).items[j].val.k = "rec"
                              /\ Get(obj, key).items[j].val.name = AnnOf(arg.cls, key).arg
                              /\ Get(obj, key).items[j].val =
                                     New(AnnOf(arg.cls, key).arg,
                                         NormaliseKeys(<<>>, value.items[j].val.items)).val
                /\ ListOfMappings(value) /\ ~HasArgs(AnnOf(arg.cls, key)) =>
                       Get(obj, key) = ListV(<<>>)
                /\ ListOfNoMapping(value) => Get(obj, key) = value

\* C25 witness: two different mappings under b of a Level2 became two
\* Level3 records in the order given
C25_Witness ==
    /\ op = "construct" /\ exc = "" /\ arg.cls = "Level2"
    /\ Get(arg.raw, kB).k = "list" /\ Len(Get(arg.raw, kB).items) = 2
    /\ HasKey(Get(arg.raw, kB).items[1].val, kI)
    /\ ~HasKey(Get(arg.raw, kB).items[2].val, kI)
    /\ Get(obj, kB).items[1].val.name = "Level3"
    /\ Get(Get(obj, kB).items[1].val, kI) = ListV(<<ListV(<<>>), ListV(<<>>)>>)
    /\ Get(Get(obj, kB).items[2].val, kI) = NoneV

\* a key with the reserved prefix '__', and the name it stands for
Reserved(key) == Len(key) > 2 /\ key[1] = "_" /\ key[2] = "_"
Declared(key) == IF Reserved(key) THEN Tail(key) ELSE key

\* the mapping names, with '__x' read as '_x', each field of c at most once,
\* all the required ones among them, and holds no mapping and no list of
\* mappings
NamesFields(d, c) ==
    /\ \A i, j \in 1..Len(d.items) : i # j => Declared(d.items[i].key) # Declared(d.items[j].key)
    /\ {Declared(k) : k \in RawKeys(d)} \subseteq FieldNames(c)
    /\ RequiredNames(c) \subseteq {Declared(k) : k \in RawKeys(d)}
    /\ \A i \in 1..Len(d.items) :
           d.items[i].val.k # "dict" /\ ~ListOfMappings(d.items[i].val)

\* the record has the value of every key of the mapping under the declared
\* name of the key
Populated(x, d, c) ==
    /\ x.k = "rec" /\ x.name = c
    /\ \A i \in 1..Len(d.items) :
           /\ HasKey(x, Declared(d.items[i].key))
           /\ Get(x, Declared(d.items[i].key)) = d.items[i].val

\* C26: when a mapping under a record field, or a mapping of a list under a
\* field of lists of records, is hydrated, a key '__x' is taken as the
\* declared field '_x': a mapping whose keys so read name the fields of the
\* declared class is hydrated, and the value given under '__x' is the value
\* of the field '_x'.
C26_ReservedKeys ==
    op = "construct" /\ arg.cls \in {"Level3Holder", "Level2"} =>
        /\ arg.cls = "Level3Holder" /\ NamesFields(Get(arg.raw, kA), "Level3") =>
               exc = "" /\ Populated(Get(obj, kA), Get(arg.raw, kA), "Level3")
        /\ /\ arg.cls = "Level2" /\ RawKeys(arg.raw) = {kB}
           /\ ListOfMappings(Get(arg.raw, kB))
           /\ \A j \in 1..Len(Get(arg.raw, kB).items) :
                  NamesFields(Get(arg.raw, kB).items[j].val, "Level3")
           => /\ exc = ""
              /\ \A j \in 1..Len(Get(arg.raw, kB).items) :
                     Populated(Get(obj, kB).items[j].val,
                               Get(arg.raw, kB).items[j].val, "Level3")

\* C26 witness: the 7 given under '__g' in the mapping of a record field is
\* the value of the field '_g'
C26_Witness ==
    /\ op = "construct" /\ exc = "" /\ arg.cls = "Level3Holder"
    /\ HasKey(Get(arg.raw, kA), kGG) /\ ~HasKey(Get(arg.raw, kA), kG)
    /\ Get(Get(arg.raw, kA), kGG) = IntV(7)
    /\ Get(Get(obj, kA), kG) = IntV(7)
    /\ ~HasKey(Get(obj, kA), kGG)

\* ---------------------------------------------------------------------
\* Incomplete gear (schemas/battle.py, classify_gear)
\* ---------------------------------------------------------------------

\* C27: classify_gear returns 'incomplete' only for an item with fewer than
\* three secondary slots that hold an ability other than 'unknown'; an item
\* with three filled slots is never 'incomplete', whatever its primary
\* ability.
C27_IncompleteOnlyIfUnfilled ==
    op = "gear.classify_gear" /\ exc = "" /\ ret = "incomplete" =>
        Cardinality(KnownSlots(obj)) < 3

\* ---------------------------------------------------------------------------
\* The ratios of the detailed player summary
\* ---------------------------------------------------------------------------

RatioKeys == {"kill", "death", "special", "assist", "paint"}
RatioOf(d, key) ==
    CASE key = "kill" -> d.kill_ratio
      [] key = "death" -> d.death_ratio
      [] key = "special" -> d.special_ratio
      [] key = "assist" -> d.assist_ratio
      [] key = "paint" -> d.paint_ratio

\* C28: a detailed player_summary never raises ZeroDivisionError; in what it
\* returns every player's kill, death, special, assist and paint ratio is the
\* player's value over max(team total, 1) and kdr is the player's kill over
\* max(the player's death, 1), so that against a team total of 0 every
\* player's ratio is 0
C28_RatiosFloored ==
    op = "team.player_summary" /\ arg = TRUE =>
        /\ exc # "ZeroDivisionError"
        /\ exc = "" =>
             \E total \in {team_summary(obj).val} :
               \A i \in 1..Len(ret) :
                 /\ \A key \in RatioKeys :
                      /\ RatioOf(ret[i], key).num = ret[i][key].v
                      /\ RatioOf(ret[i], key).den
                           = (IF total[key].v > 1 THEN total[key].v ELSE 1)
                      /\ total[key].v = 0 => RatioOf(ret[i], key).num = 0
                 /\ ret[i].kdr.num = ret[i].kill.v
                 /\ ret[i].kdr.den = (IF ret[i].death.v > 1 THEN ret[i].death.v ELSE 1)

\* a detailed summary of two players whose team has no death and no special
\* but more than one kill
C28_Witness ==
    /\ op = "team.player_summary" /\ arg = TRUE /\ exc = ""
    /\ Len(ret) = 2
    /\ team_summary(obj).val.death.v = 0
    /\ team_summary(obj).val.kill.v > 1
    /\ \A i \in 1..2 : ret[i].death_ratio = Quot(0, 1) /\ ret[i].kdr.den = 1


\* ---------------------------------------------------------------------------
\* Sessions: analytics/sessions.py
\* ---------------------------------------------------------------------------

MaxBattles == 3
MaxMinute == 3

\* one row of the frame: the minute a battle started and the minute it ended
Battle(played_time, end_time) == [played_time |-> played_time, end_time |-> end_time]

\* strftime("%Y%m%d%H%M%S") of a minute of the first hour of 2023-01-01
strftime(minute) ==
    "2023010100" \o (IF minute < 10 THEN "0" ELSE "") \o ToString(minute) \o "00"

\* (difference > session_length).astype(int).cumsum(): the first row has no
\* row before it, its difference is NaT and compares False
RECURSIVE session_int(_, _, _)
session_int(df, session_length, i) ==
    IF i = 0 THEN 0
    ELSE IF i = 1 THEN 0
    ELSE session_int(df, session_length, i - 1)
           + (IF df[i].played_time - df[i - 1].end_time > session_length THEN 1 ELSE 0)

\* the rows of the session of row i, in row order
SessionRows(df, session_length, i) ==
    { j \in 1..Len(df) : session_int(df, session_length, j) = session_int(df, session_length, i) }

\* df.groupby(session_int)["played_time"].min()
session_start(df, session_length, i) ==
    CHOOSE t \in { df[j].played_time : j \in SessionRows(df, session_length, i) } :
        \A j \in SessionRows(df, session_length, i) : t <= df[j].played_time

\* session_int.value_counts().sub(1).clip(lower=1).pipe(session_int.map)
session_size(df, session_length, i) ==
    IF Cardinality(SessionRows(df, session_length, i)) - 1 < 1 THEN 1
    ELSE Cardinality(SessionRows(df, session_length, i)) - 1

\* df.groupby(session_int).cumcount()
cumcount(df, session_length, i) ==
    Cardinality({ j \in SessionRows(df, session_length, i) : j < i })

\* cumcount / session_size, then 1.0 wherever session_size == 1
relative_position(df, session_length, i) ==
    IF session_size(df, session_length, i) = 1 THEN Quot(1, 1)
    ELSE Quot(cumcount(df, session_length, i), session_size(df, session_length, i))

generate_session_ids(df, session_length, relative_column) ==
    [i \in 1..Len(df) |->
        IF relative_column
        THEN [session_id |-> strftime(session_start(df, session_length, i)),
              relative_position |-> relative_position(df, session_length, i)]
        ELSE [session_id |-> strftime(session_start(df, session_length, i))]]

Battles == { Battle(t, t + 1) : t \in 0..MaxMinute }
BattleFrames == UNION { [1..n -> Battles] : n \in 1..MaxBattles }
SessionLengths == {0, 1}

GenerateSessionIds(df, session_length, relative_column) ==
    CalledWith(df, [session_length |-> session_length, relative_column |-> relative_column],
               "generate_session_ids",
               Ok(generate_session_ids(df, session_length, relative_column)))

NextSessions ==
    \E df \in BattleFrames, session_length \in SessionLengths, relative_column \in BOOLEAN :
        GenerateSessionIds(df, session_length, relative_column)

SpecSessions == Init /\ [][NextSessions]_vars

\* the rows of row i's session, as the call was made
RowsOfSession(i) == SessionRows(obj, arg.session_length, i)
IsFirst(i) == \A j \in RowsOfSession(i) : i <= j
IsLast(i) == \A j \in RowsOfSession(i) : j <= i
Less(a, b) == a.num * b.den < b.num * a.den

\* C29: with relative_column=True every row gets its position within its
\* session on a scale from 0 to 1: in a session of two or more rows the first
\* row is at 0, the last row at 1 and the positions strictly increase with
\* the row order; the row of a single-row session is at 1.0
C29_PositionsFromZeroToOne ==
    op = "generate_session_ids" /\ arg.relative_column =>
        \A i \in 1..Len(ret) :
          IF Cardinality(RowsOfSession(i)) = 1
          THEN ret[i].relative_position = Quot(1, 1)
          ELSE /\ IsFirst(i) => ret[i].relative_position.num = 0
               /\ IsLast(i) => ret[i].relative_position.num = ret[i].relative_position.den
               /\ \A j \in RowsOfSession(i) :
                    i < j => Less(ret[i].relative_position, ret[j].relative_position)


\* ---------------------------------------------------------------------------
\* How often traverse_tree visits a record
\* ---------------------------------------------------------------------------

\* the records of the tree at and below x that have a field whose value is
\* neither a record nor a list, each named by its path from path
RECURSIVE RecordsWithLeaf(_, _)
RecordsWithLeaf(x, path) ==
    (IF \E i \in 1..Len(x.items) : x.items[i].val.k \notin {"rec", "list"}
     THEN {path} ELSE {})
    \cup UNION { LET value == x.items[i].val
                     here == Append(path, StepName(x.items[i].key))
                 IN  CASE value.k = "rec" -> RecordsWithLeaf(value, here)
                       [] value.k = "list" ->
                             UNION { IF value.items[j].val.k = "rec"
                                     THEN RecordsWithLeaf(value.items[j].val,
                                                          Append(here, StepPos(j - 1)))
                                     ELSE {} : j \in 1..Len(value.items) }
                       [] OTHER -> {}
                 : i \in 1..Len(x.items) }

Visits(p) == Cardinality({ i \in 1..Len(ret.items) : ret.items[i].val.items = p })

\* C30: traverse_tree applies the function exactly once to each record of the
\* tree that has at least one leaf field, however many leaf fields it has,
\* and never twice to the same record
C30_EachRecordOnce ==
    op = "traverse_tree" /\ exc = "" =>
        /\ \A p \in RecordsWithLeaf(obj, <<>>) : Visits(p) = 1
        /\ \A i \in 1..Len(ret.items) : Visits(ret.items[i].val.items) = 1


\* ---------------------------------------------------------------------------
\* Concatenation of collections (JSONDataClassListTopLevel.concatenate, as
\* the specification and tests/test_schema.py::test_concatenate describe it)
\* ---------------------------------------------------------------------------

MaxArgs == 3

OnlyOne == "Only one object to concatenate"

\* whether x is a collection of the concrete class cls
IsOfClass(x, cls) == x.k = "rec" /\ x.name = cls /\ IsCollection(cls)

\* the elements of the collections, the last collection's elements first
RECURSIVE ConcatDataReversed(_, _)
ConcatDataReversed(args, i) ==
    IF i > Len(args) THEN <<>>
    ELSE ConcatDataReversed(args, i + 1) \o Get(args[i], kData).items

\* the elements of the collections args[i], args[i + 1], ..., in that order
RECURSIVE ConcatData(_, _)
ConcatData(args, i) ==
    IF i > Len(args) THEN <<>>
    ELSE Get(args[i], kData).items \o ConcatData(args, i + 1)

\* what a call returns: its value and the warnings it emitted
Warned(value, warnings) == [value |-> value, warnings |-> warnings]

\* cls.concatenate(*args): no argument is a ValueError; one argument is
\* warned about, and a list given as the one argument stands for its items;
\* an argument that is not a collection of cls is a TypeError
concatenate(cls, args) ==
    IF Len(args) = 0 THEN Raise("ValueError", "")
    ELSE LET warnings == IF Len(args) = 1 THEN <<OnlyOne>> ELSE <<>>
             objs == IF Len(args) = 1 /\ args[1].k = "list" THEN Vals(args[1]) ELSE args
         IN  IF \E i \in 1..Len(objs) : ~IsOfClass(objs[i], cls)
             THEN Raise("TypeError", "")
             ELSE Ok(Warned(RecV(cls, <<E(kData, ListOfEntries(ConcatData(objs, 1)))>>),
                            warnings))

\* inputs: three collections of Level0 (of no, one and two records), a
\* collection of another class, and a number
Level0Of(raws) == CollInit("Level0", ListV(raws)).val
SameColls == {Level0Of(<<>>), Level0Of(<<RawNoId>>), Level0Of(<<RawNoIdShort, RawNoId>>)}
OtherArgs == {CollInit("Level0WithID", ListV(<<RawWithId>>)).val, IntV(1)}
\* a call with one argument is made with a collection of the class or with
\* a list of such collections
ConcatArgs ==
    {<<>>} \cup {<<x>> : x \in SameColls}
      \cup {<<ListV(q)>> : q \in SeqsUpTo(SameColls, 2) \ {<<>>}}
      \cup {q \in SeqsUpTo(SameColls \cup OtherArgs, MaxArgs) : Len(q) >= 2}

Concatenate(cls, args) == CalledWith(cls, args, "concatenate", concatenate(cls, args))

NextConcat == \E args \in ConcatArgs : Concatenate("Level0", args)

SpecConcat == Init /\ [][NextConcat]_vars

\* the number of elements of the first n collections of args
RECURSIVE Before(_, _)
Before(args, n) == IF n = 0 THEN 0 ELSE Before(args, n - 1) + Len(Get(args[n], kData).items)

====
